---- MODULE Spec2Model ----
(***************************************************************************)
(* Neon Sky Audio: the mastering signal-chain engine (useAudioEngine.ts)   *)
(* and its two realtime processing units (limiter / meter worklets).       *)
(*                                                                         *)
(* Numbers are fixed point.  Linear sample values, gains and the limiter   *)
(* envelope are in hundredths (100 = 1.0 = 0 dBFS); decibel values are in  *)
(* tenths of a dB (-3 = -0.3 dB); release coefficients are in              *)
(* ten-thousandths.                                                        *)
(***************************************************************************)
EXTENDS Integers, Sequences, FiniteSets, TLC

VARIABLES
    \* LimiterProcessor (worklet)
    limEnv,      \* _env
    limParams,   \* the parameter values read in the last pass
    limIn,       \* the input frame of the last pass of the sample loop
    limOut,      \* the output frame of the last pass of the sample loop
    \* MeterProcessor (worklet)
    meterProc,   \* the fields of the processor
    meterPost,   \* the message last posted, its number, and the frames
                 \* processed when it was posted
    meterHist,   \* the input blocks of the process() calls so far
    \* audioBufferToWav
    wavIn,       \* the buffer it was called with
    wavBytes,    \* the bytes of the Blob it returned
    \* ChainState (React state of useAudioEngine)
    eq, compressor, limiter, saturation, stereo, output,
    volume, isMuted, previousVolume,
    \* presets and gain matching
    presetA, presetB, activePresetSlot, gainMatchEnabled, gainMatchOffset,
    storedPresets,   \* localStorage entries neon-mastering-preset-A / -B
    meterLufs,       \* meter.lufsIntegrated
    presetFile,      \* the file exportPresetJson last handed to the browser
    presetFileFrom,  \* the six ChainState objects as they were at that export
    importResult,    \* how the last importPresetJson call settled
    \* the live graph
    audioCtxRef,     \* audioCtxRef.current: 0 is null, else the context's number
    ctxCount,        \* AudioContexts created so far
    ctxModules,      \* <<context, module>> pairs: worklet modules loaded
    refs,            \* the node refs that are set
    wired,           \* the nodes that hold connections made by initAudio
    ctxClosed,       \* the AudioContexts close() was called on
    vizTaps,         \* the visualizer loop holds the analysers of a graph
    live,            \* parameter values of the live nodes
    isInitialized,   \* isInitializedRef.current
    elementSourced,  \* the audio element has had a MediaElementSource made
    mediaRecorderSupported,   \* window.MediaRecorder exists
    initAudioEq,     \* the eq captured by the memoized initAudio callback
    visualizerActive, visualizerBlocked,
    \* StableVisualizerLoop
    vizRunning,      \* isRunning
    rafId,           \* rafId: "null", or the latest request, which is
                     \* "live" until it runs or is cancelled, then "stale"
    rafPending,      \* the number of the loop's animation-frame requests
                     \* that have neither run nor been cancelled
    fpsEma,          \* fpsEma, in hundredths of a frame per second
    lowFpsDuration,  \* lowFpsDuration, in thirds of a millisecond
    frameCount,      \* frameCount
    sinceFrame,      \* the time since lastFrameTime at the latest animation
                     \* frame (or start()), in thirds of a millisecond
    sinceDraw,       \* the time since the latest frame that drew, or NoDraw
    lastTick,        \* the latest animation frame: its elapsed and passes
    disableSignals,  \* autoDisable calls since the host last turned it on
    drawsAfterDisable,   \* the draw passes run since such a call
    initViz,         \* visualizerActive && !visualizerBlocked as each
                     \* initAudio call in flight captured it
    calls,           \* API calls and host renders so far
    \* initAudio calls in flight
    initPc, initRet,
    initCtx,         \* the context an initAudio call's addModule runs on
    \* playback state and the audio element
    playbackState, isPlaying, error,
    audioSrc,        \* the track the audio element has loaded, 0 for no src
    audioPaused,     \* audioEl.paused
    audioTime,       \* audioEl.currentTime, in ticks
    trackTime,       \* track.currentTime, the position the host shows
    isDragging,      \* a drag of the seek ring is under way
    dragProgress,    \* dragProgress, in percent of the ring
    canPlayPending,  \* a load() whose canplay event is still to come
    lastWasPlaying,  \* lastWasPlayingRef.current
    cycle,           \* the background/foreground cycle being watched
    \* the engine instance and its playlist
    mounted, playlist, currentIndex,
    restorePending,  \* loadStoredPlaylist() of the mount effect has not settled
    artwork,         \* ids of the items given artwork by updatePlaylistArtwork
    listOps,         \* playlist edits so far
    itemUrl,         \* the object URL of each item of the playlist, by id
    urlCount,        \* URL.createObjectURL calls made for audio files
    revoked,         \* the object URLs given to URL.revokeObjectURL
    \* the stored playlist (playlistStore.ts)
    stored,          \* the "order" and "currentIndex" entries of the database
    loadRead,        \* what the transaction of loadStoredPlaylist() read
    clearPending,    \* a clearStoredPlaylist() call has not written yet
    saveTimer,       \* what the 800 ms timer of the persist effect will save
    \* export
    isExporting,
    exportPc,        \* where the startExport call is suspended
    exportOffline,   \* how exportOfflineWav of this run settled
    fallbackRan,     \* exportViaRecorder was called in this run
    download,        \* the file this run handed to the browser
    recState,        \* MediaRecorder.state of the recorder created by initAudio
    endedHook,       \* exportViaRecorder's "ended" listener is attached
    exportSnap,      \* playback as it was when startExport was called
    overlapPc,       \* where a startExport call made during another waits
    normalizeLoudness, targetLufs,
    render           \* the offline render of the last startExport

limiterVars == <<limEnv, limParams, limIn, limOut>>

meterVars == <<meterProc, meterPost, meterHist>>

wavVars == <<wavIn, wavBytes>>

workletVars == <<limiterVars, meterVars, wavVars>>

chainVars == <<eq, compressor, limiter, saturation, stereo, output,
               volume, isMuted, previousVolume>>

fileVars == <<presetFile, presetFileFrom, importResult>>

presetVars == <<presetA, presetB, activePresetSlot, gainMatchEnabled,
                gainMatchOffset, storedPresets, meterLufs, fileVars>>

wiringVars == <<wired, ctxClosed, vizTaps>>

graphVars == <<audioCtxRef, ctxCount, ctxModules, refs, wiringVars, live, isInitialized, elementSourced,
               mediaRecorderSupported>>

hostArgs == <<initAudioEq, visualizerActive, visualizerBlocked>>

startVars == <<lowFpsDuration, sinceFrame, sinceDraw>>

frameVars == <<fpsEma, frameCount, lastTick>>

rafVars == <<rafId, rafPending>>

loopVars == <<vizRunning, rafVars, startVars, frameVars>>

vizHistory == <<disableSignals, drawsAfterDisable>>

hostVars == <<hostArgs, loopVars, vizHistory, initViz>>

initVars == <<initPc, initRet, initCtx>>

resumeVars == <<lastWasPlaying, cycle>>

mediaVars == <<audioSrc, audioPaused, audioTime, trackTime, canPlayPending,
              resumeVars>>

ringVars == <<isDragging, dragProgress>>

\* what the engine's operations other than the seek ring's never write
detachedVars == <<workletVars, ringVars>>

playVars == <<playbackState, isPlaying, error, mediaVars>>

urlVars == <<itemUrl, urlCount, revoked>>

storeVars == <<stored, loadRead, clearPending, saveTimer>>

listVars == <<mounted, playlist, currentIndex, restorePending, artwork, listOps,
              urlVars, storeVars>>

renderVars == <<normalizeLoudness, targetLufs, render>>

exportVars == <<isExporting, exportPc, exportOffline, fallbackRan, download,
                recState, endedHook, exportSnap, overlapPc, renderVars>>

\* everything outside ChainState, the presets and the live node values
outsideChain == <<audioCtxRef, ctxCount, ctxModules, refs, wiringVars, isInitialized,
                  elementSourced, mediaRecorderSupported, hostVars, initVars,
                  playVars, listVars, exportVars, detachedVars>>

engineVars == <<chainVars, presetVars, graphVars, hostVars, calls, ringVars,
                initVars, playVars, listVars, exportVars>>

vars == <<workletVars, engineVars>>

----------------------------------------------------------------------------
(* Arithmetic helpers *)

Abs(x) == IF x < 0 THEN -x ELSE x

Sign(x) == IF x > 0 THEN 1 ELSE IF x < 0 THEN -1 ELSE 0

Max2(a, b) == IF a > b THEN a ELSE b

Min2(a, b) == IF a < b THEN a ELSE b

\* sign-symmetric fixed-point product a*b/unit
MulDiv(a, b, unit) == Sign(a) * Sign(b) * ((Abs(a) * Abs(b)) \div unit)

\* Math.pow(10, db / 20), db in tenths of a dB, result in hundredths, at the
\* decibel values the model uses
DbToGainTable ==
    [db \in {-240, -180, -120, -60, -40, -30, -20, -3, -1, 0, 20, 40, 60,
             80, 100, 120, 180, 240, 260, 280, 300, 320, 340, 360, 420} |->
        CASE db = -240 -> 6
          [] db = -180 -> 13
          [] db = -120 -> 25
          [] db = -60 -> 50
          [] db = -40 -> 63
          [] db = -30 -> 71
          [] db = -20 -> 79
          [] db = -3 -> 97
          [] db = -1 -> 99
          [] db = 0 -> 100
          [] db = 20 -> 126
          [] db = 40 -> 158
          [] db = 60 -> 200
          [] db = 80 -> 251
          [] db = 100 -> 316
          [] db = 120 -> 398
          [] db = 180 -> 794
          [] db = 240 -> 1585
          [] db = 260 -> 1995
          [] db = 280 -> 2512
          [] db = 300 -> 3162
          [] db = 320 -> 3981
          [] db = 340 -> 5012
          [] db = 360 -> 6310
          [] db = 420 -> 12589]

----------------------------------------------------------------------------
(* Engine state: useAudioEngine.ts, lines 2061-2253.  Decibels are in      *)
(* tenths of a dB, times in ms, drive / mix / width / pan / volume in      *)
(* hundredths.                                                             *)

Bands == {"sub", "low", "mid", "high", "air"}

Slots == {"A", "B"}

DEFAULT_EQ == [b \in Bands |-> 0]

\* a sub-object that is undefined
Undefined == [undefined |-> TRUE]

\* a preset slot that is null
NoPreset == [none |-> TRUE]

\* no preset file has been exported
NoFile == [nofile |-> TRUE]

DefaultCompressor ==
    [threshold |-> -180, ratio |-> 2, attack |-> 10, release |-> 250,
     makeup |-> 0, bypass |-> FALSE]

DefaultLimiter ==
    [threshold |-> -60, ceiling |-> -3, release |-> 120, softClip |-> TRUE,
     bypass |-> FALSE]

DefaultSaturation == [drive |-> 20, mix |-> 40, bypass |-> FALSE]

DefaultStereo == [width |-> 100, pan |-> 0, mono |-> FALSE, bypass |-> FALSE]

DefaultOutput == [trim |-> 0, bypass |-> FALSE]

\* the number NaN: what arithmetic makes of a lufs member that is not a
\* number, such as a string with a unit in an imported document
NaN == 1000000

\* no frame has drawn since the loop was started
NoDraw == -1

\* no background/foreground cycle is being watched
NoCycle ==
    [phase |-> "none", before |-> <<FALSE, 0, 0>>, after |-> <<FALSE, 0, 0>>,
     ops |-> <<0, 0>>, plays |-> 0]

\* no animation frame has come yet
NoTick == [elapsed |-> 0, sinceDraw |-> NoDraw, passes |-> "none"]

\* a render of the hook or of Home.tsx reads a field of an undefined
\* sub-object and throws: the component tree is gone, no handler runs again
RenderThrows == saturation = Undefined \/ stereo = Undefined \/ output = Undefined

\* the tree is gone: a render threw, or the output gain effect did when
\* setTargetAtTime rejected a NaN target (live.out then records the throw,
\* the node keeps its value)
Crashed == RenderThrows \/ live.out = NaN

\* the engine instance is mounted and rendering
Alive == mounted /\ ~Crashed

\* clamp(n, min, max) = Math.min(max, Math.max(min, n))
ClampLoose(n, min, max) == n

Clamp(n, min, max) == Min2(max, Max2(min, n))

\* dbToGain(db)
DbToGain(db) == DbToGainTable[db]

\* the node refs of the graph; "filters" stands for filtersRef.current
\* holding the five band filters
PreSourceRefs ==
    {"analyser", "vizAnalyserL", "vizAnalyserR", "meter", "compressor",
     "compressorMakeup", "saturationShaper", "saturationDryGain",
     "saturationWetGain", "saturationSum", "stereoSplit", "stereoMerge",
     "stereoGainLL", "stereoGainRR", "stereoGainLR", "stereoGainRL",
     "stereoPan", "limiter", "outputGain", "filters"}

PostSourceRefs == {"source", "vizSplit", "dest"}

NodeRefs == PreSourceRefs \cup PostSourceRefs \cup {"recorder"}

\* parameter values of freshly created nodes: DynamicsCompressorNode,
\* GainNode, WaveShaperNode (curve null, written -1), StereoPannerNode and
\* the limiter worklet's parameterDescriptors defaults
NodeDefaults(eqInit) ==
    [eq      |-> eqInit,
     comp    |-> [threshold |-> -240, ratio |-> 12, attack |-> 3, release |-> 250],
     makeup  |-> 100,
     sat     |-> [curve |-> -1, dry |-> 100, wet |-> 100],
     stereo  |-> [ll |-> 100, rr |-> 100, lr |-> 100, rl |-> 100, pan |-> 0],
     lim     |-> [threshold |-> -60, ceiling |-> -1, release |-> 120,
                  softClip |-> 0, bypass |-> 0],
     out     |-> 100]

\* an empty database: loadStoredPlaylist gives no items and index 0
NoStored == [order |-> <<>>, currentIndex |-> 0]

\* the transaction of loadStoredPlaylist has not run
NotRead == [order |-> <<>>, currentIndex |-> -1]

\* no timer of the persist effect is armed
NoTimer == [order |-> <<>>, currentIndex |-> -2]

\* the mount effects have run: loadStoredPlaylist() is in flight (line 2164)
\* and the persist effect, with the empty initial playlist, has called
\* clearStoredPlaylist() (lines 3606-3610)
EngineStart ==
    /\ eq = DEFAULT_EQ
    /\ compressor = DefaultCompressor
    /\ limiter = DefaultLimiter
    /\ saturation = DefaultSaturation
    /\ stereo = DefaultStereo
    /\ output = DefaultOutput
    /\ volume = 100
    /\ isMuted = FALSE
    /\ previousVolume = 100
    /\ presetA = NoPreset
    /\ presetB = NoPreset
    /\ activePresetSlot = "A"
    /\ gainMatchEnabled = FALSE
    /\ gainMatchOffset = 0
    /\ storedPresets = [s \in Slots |-> NoPreset]
    /\ meterLufs = -1200
    /\ presetFile = NoFile
    /\ presetFileFrom = NoFile
    /\ importResult = "none"
    /\ audioCtxRef = 0
    /\ ctxCount = 0
    /\ ctxModules = {}
    /\ refs = {}
    /\ wired = {}
    /\ ctxClosed = {}
    /\ vizTaps = FALSE
    /\ live = NodeDefaults(DEFAULT_EQ)
    /\ isInitialized = FALSE
    /\ elementSourced = FALSE
    /\ initAudioEq = DEFAULT_EQ
    /\ visualizerActive = TRUE
    /\ visualizerBlocked = FALSE
    /\ vizRunning = FALSE
    /\ rafId = "null"
    /\ rafPending = 0
    /\ fpsEma = 6000
    /\ lowFpsDuration = 0
    /\ frameCount = 0
    /\ sinceFrame = 0
    /\ sinceDraw = NoDraw
    /\ lastTick = NoTick
    /\ disableSignals = 0
    /\ drawsAfterDisable = "none"
    /\ initViz = [c \in {1, 2} |-> FALSE]
    /\ initPc = [c \in {1, 2} |-> "idle"]
    /\ initRet = [c \in {1, 2} |-> "none"]
    /\ initCtx = [c \in {1, 2} |-> 0]
    /\ playbackState = "idle"
    /\ isPlaying = FALSE
    /\ error = "none"
    /\ audioSrc = 0
    /\ audioPaused = TRUE
    /\ audioTime = 0
    /\ trackTime = 0
    /\ isDragging = FALSE
    /\ dragProgress = 0
    /\ canPlayPending = FALSE
    /\ lastWasPlaying = FALSE
    /\ cycle = NoCycle
    /\ mounted = TRUE
    /\ playlist = <<>>
    /\ currentIndex = 0
    /\ restorePending = TRUE
    /\ artwork = {}
    /\ itemUrl = [id \in {} |-> 0]
    /\ loadRead = NotRead
    /\ clearPending = TRUE
    /\ saveTimer = NoTimer
    /\ urlCount = 0
    /\ revoked = {}
    /\ isExporting = FALSE
    /\ exportPc = "idle"
    /\ exportOffline = "none"
    /\ fallbackRan = FALSE
    /\ download = "none"
    /\ recState = "inactive"
    /\ endedHook = FALSE
    /\ overlapPc = "idle"
    /\ exportSnap = [index |-> 0, time |-> 0, paused |-> TRUE, calls |-> 0,
                     listOps |-> 0, restorePending |-> TRUE]
    /\ normalizeLoudness = FALSE
    /\ targetLufs = -140
    /\ render = [phase |-> "none"]

EngineInit == EngineStart /\ calls = 0 /\ listOps = 0 /\ stored = NoStored

----------------------------------------------------------------------------
(* Limiter worklet: src/unnamed/part_001, lines 115-195 *)

\* _dbToGain(db)
LimiterDbToGain(db) == DbToGainTable[db]

\* Math.tanh(x), x and result in hundredths: chords of tanh between knots
TanhKnots == <<0, 25, 50, 75, 100, 150, 200, 300, 400>>

TanhVals == <<0, 24, 46, 63, 76, 90, 96, 99, 100>>

TanhPos(x) ==
    IF x >= 400 THEN 100
    ELSE LET k == CHOOSE i \in 1..8 : TanhKnots[i] <= x /\ x < TanhKnots[i + 1]
         IN TanhVals[k] +
            ((x - TanhKnots[k]) * (TanhVals[k + 1] - TanhVals[k]))
                \div (TanhKnots[k + 1] - TanhKnots[k])

Tanh(x) == Sign(x) * TanhPos(Abs(x))

\* _softClip(sample, ceiling): c = max(0.0001, ceiling); tanh(sample / c) * c
\* (0.0001 is below the fixed-point unit and is kept as the smallest unit)
LimiterSoftClip(sample, ceiling) ==
    LET c == Max2(1, ceiling)
    IN MulDiv(Tanh(MulDiv(sample, 100, c)), c, 100)

\* Math.exp(-1 / (sampleRate * (release / 1000))), release in ms, result in
\* ten-thousandths.  sampleRate is the worklet global; it only scales the
\* release time and is 1000 Hz here, so that a release completes in tens of
\* frames.
ReleaseCoeffTable ==
    [r \in {10, 120, 1000} |->
        CASE r = 10 -> 9048 [] r = 120 -> 9917 [] r = 1000 -> 9990]

ReleaseCoeff(release) == ReleaseCoeffTable[release]

\* peak over the channels of one frame
FramePeak(frame) ==
    LET abs == {Abs(frame[ch]) : ch \in DOMAIN frame}
    IN CHOOSE p \in abs : \A q \in abs : q <= p

\* targetGain: threshold / peak when the peak is over the threshold
TargetGain(peak, threshold) ==
    IF peak > threshold /\ peak > 0 THEN (threshold * 100) \div peak ELSE 100

\* the follower with the release smoothing applied to the attack too
NextEnvSlow(env, targetGain, releaseCoeff) ==
    env + ((targetGain - env) * (10000 - releaseCoeff)) \div 10000

\* the envelope follower: instant attack, exponential release
NextEnv(env, targetGain, releaseCoeff) ==
    IF targetGain < env
    THEN targetGain
    ELSE env + ((targetGain - env) * (10000 - releaseCoeff)) \div 10000

\* the hard clamp to +-ceiling
HardClampNone(out, ceiling) == out

HardClamp(out, ceiling) ==
    IF Abs(out) > ceiling THEN Sign(out) * ceiling ELSE out

\* one output sample of one channel
LimiterOutSample(sample, env, p) ==
    LET ceiling == LimiterDbToGain(p.ceiling)
        gained  == IF p.bypass = 1 THEN sample ELSE MulDiv(sample, env, 100)
        clamped == HardClamp(gained, ceiling)
    IN IF p.softClip = 1 THEN LimiterSoftClip(clamped, ceiling) ELSE clamped

\* process(): the sample loop over a block, from envelope env; the result is
\* the envelope after the block and the output block
RECURSIVE LimiterRun(_, _, _)
LimiterRun(block, env, p) ==
    IF block = <<>>
    THEN [env |-> env, out |-> <<>>]
    ELSE LET frame  == Head(block)
             target == TargetGain(FramePeak(frame), LimiterDbToGain(p.threshold))
             env1   == NextEnv(env, target, ReleaseCoeff(p.release))
             outF   == [ch \in DOMAIN frame |-> LimiterOutSample(frame[ch], env1, p)]
             rest   == LimiterRun(Tail(block), env1, p)
         IN [env |-> rest.env, out |-> <<outF>> \o rest.out]

\* input frames, mono and stereo: silence, in range, full scale, over it
Frames == {<<0>>, <<-70>>, <<400>>, <<100, -40>>}

\* parameter values within the ranges of parameterDescriptors
LimiterParamSets ==
    [threshold : {-60, 0},
     ceiling   : {-60, -3},
     release   : {10, 1000},
     softClip  : {0, 1},
     bypass    : {0, 1}]

LimiterInit ==
    /\ limEnv = 100
    /\ limParams = [threshold |-> -60, ceiling |-> -1, release |-> 120,
                    softClip |-> 0, bypass |-> 0]
    /\ limIn = <<>>
    /\ limOut = <<>>

\* LimiterProcessor.process(inputs, outputs, parameters): one pass of the
\* sample loop, on frame i of the block with the parameter values of index i
\* (each parameter array holds one value for the block or one per sample)
LimiterProcess(frame, p) ==
    LET r == LimiterRun(<<frame>>, limEnv, p)
    IN /\ limEnv' = r.env
       /\ limParams' = p
       /\ limIn' = frame
       /\ limOut' = r.out[1]
       /\ UNCHANGED <<engineVars, meterVars, wavVars>>

LimiterNext ==
    \E f \in Frames, p \in LimiterParamSets : LimiterProcess(f, p)

\* The meter worklet's state: src/unnamed/part_001, lines 8-23

\* new Float32Array(n)
ZeroBuffer(n) == [i \in 1..n |-> 0]

\* new MeterProcessor() in a scope whose sampleRate is sr (lines 8-23)
MeterProcessor(sr) ==
    LET mw == Max2(1, (sr * 4) \div 10)
        sw == Max2(1, sr * 3)
    IN [sampleRate       |-> sr,
        momentaryWindow  |-> mw,
        shortWindow      |-> sw,
        momentaryBuffer  |-> ZeroBuffer(mw),
        shortBuffer      |-> ZeroBuffer(sw),
        momentaryIndex   |-> 0,
        shortIndex       |-> 0,
        momentarySum     |-> 0,
        shortSum         |-> 0,
        integratedSum    |-> 0,
        integratedCount  |-> 0,
        frameCounter     |-> 0,
        lastReport       |-> 0]

\* no message has been posted
NoReport == [n |-> 0, at |-> 0, blk |-> 0, prevBlk |-> 0, msg |-> <<>>]

MeterInit(sr) ==
    /\ meterProc = MeterProcessor(sr)
    /\ meterPost = NoReport
    /\ meterHist = <<>>

\* no buffer has been handed to audioBufferToWav
NoBuffer == [sampleRate |-> 0, channels |-> <<>>]

WavInit ==
    /\ wavIn = NoBuffer
    /\ wavBytes = <<>>

\* the state after construction, on a host that has MediaRecorder
Init ==
    /\ LimiterInit
    /\ MeterInit(5)
    /\ WavInit
    /\ EngineInit
    /\ mediaRecorderSupported = TRUE

LimiterSpec == Init /\ [][LimiterNext]_vars

----------------------------------------------------------------------------
(* Parameter propagation effects: useAudioEngine.ts, lines 2333-2340 and   *)
(* 2786-2902.  Each takes the node values lv, the set r of refs that are   *)
(* set and the rendered state st, and gives the node values after the      *)
(* effect has run.  React runs the effects of a commit before the next     *)
(* event handler, so a handler and the effects it triggers are one step.   *)

\* the state the effects read
Chain ==
    [eq |-> eq, compressor |-> compressor, limiter |-> limiter,
     saturation |-> saturation, stereo |-> stereo, output |-> output,
     volume |-> volume, isMuted |-> isMuted,
     gainMatchEnabled |-> gainMatchEnabled, gainMatchOffset |-> gainMatchOffset]

\* the eq effect
EqEffect(lv, r, st) ==
    IF "filters" \in r THEN [lv EXCEPT !.eq = st.eq] ELSE lv

\* the target of the output gain effect
OutputTarget(st) ==
    LET trim      == IF st.output.bypass THEN 0 ELSE st.output.trim
        gainMatch == IF st.gainMatchEnabled THEN st.gainMatchOffset ELSE 0
        base      == IF st.isMuted THEN 0 ELSE st.volume
    IN IF gainMatch = NaN THEN NaN
       ELSE (base * DbToGain(trim + gainMatch)) \div 100

\* the output gain effect
OutputEffect(lv, r, st) ==
    IF "outputGain" \in r THEN [lv EXCEPT !.out = OutputTarget(st)] ELSE lv

\* the compressor effect
CompressorEffect(lv, r, st) ==
    IF "compressor" \in r
    THEN LET c    == st.compressor
             node == IF c.bypass
                     THEN [threshold |-> 0, ratio |-> 1, attack |-> 3,
                           release |-> 250]
                     ELSE [threshold |-> c.threshold, ratio |-> c.ratio,
                           attack |-> c.attack, release |-> c.release]
             mk   == IF "compressorMakeup" \in r
                     THEN DbToGain(IF c.bypass THEN 0 ELSE c.makeup)
                     ELSE lv.makeup
         IN [lv EXCEPT !.comp = node, !.makeup = mk]
    ELSE lv

\* the saturation effect; the curve of createSaturationCurve(drive) is
\* written as the clamped drive it is computed from
SaturationEffect(lv, r, st) ==
    IF {"saturationShaper", "saturationDryGain", "saturationWetGain"} \subseteq r
    THEN LET mix == IF st.saturation.bypass THEN 0
                    ELSE Clamp(st.saturation.mix, 0, 100)
         IN [lv EXCEPT !.sat = [curve |-> Clamp(st.saturation.drive, 0, 100),
                                dry |-> 100 - mix, wet |-> mix]]
    ELSE lv

\* the stereo effect
StereoEffect(lv, r, st) ==
    IF {"stereoGainLL", "stereoGainRR", "stereoGainLR", "stereoGainRL",
        "stereoPan"} \subseteq r
    THEN LET width == IF st.stereo.bypass THEN 100
                      ELSE IF st.stereo.mono THEN 0
                      ELSE Clamp(st.stereo.width, 0, 200)
             a == (100 + width) \div 2
             b == (100 - width) \div 2
         IN [lv EXCEPT !.stereo =
                [ll |-> a, rr |-> a, lr |-> b, rl |-> b,
                 pan |-> IF st.stereo.bypass THEN 0
                         ELSE Clamp(st.stereo.pan, -100, 100)]]
    ELSE lv

\* the limiter effect; each AudioParam keeps the value within the range of
\* its parameterDescriptor
LimiterEffect(lv, r, st) ==
    IF "limiter" \in r
    THEN [lv EXCEPT !.lim =
            [threshold |-> Clamp(st.limiter.threshold, -240, 0),
             ceiling   |-> Clamp(st.limiter.ceiling, -60, 0),
             release   |-> Clamp(st.limiter.release, 10, 1000),
             softClip  |-> IF st.limiter.softClip THEN 1 ELSE 0,
             bypass    |-> IF st.limiter.bypass THEN 1 ELSE 0]]
    ELSE lv

\* the node values after the effects named in which have run, in the order
\* the effects are declared
EffectsRun(lv, r, which, st) ==
    LET l1 == IF "eq" \in which THEN EqEffect(lv, r, st) ELSE lv
        l2 == IF "output" \in which THEN OutputEffect(l1, r, st) ELSE l1
        l3 == IF "compressor" \in which THEN CompressorEffect(l2, r, st) ELSE l2
        l4 == IF "saturation" \in which THEN SaturationEffect(l3, r, st) ELSE l3
        l5 == IF "stereo" \in which THEN StereoEffect(l4, r, st) ELSE l4
    IN IF "limiter" \in which THEN LimiterEffect(l5, r, st) ELSE l5

\* the effects whose dependencies are fields: they run when a value changed
FieldEffects ==
    (IF eq' /= eq THEN {"eq"} ELSE {})
        \cup (IF output' /= output \/ volume' /= volume \/ isMuted' /= isMuted
                 \/ gainMatchEnabled' /= gainMatchEnabled
                 \/ gainMatchOffset' /= gainMatchOffset
              THEN {"output"} ELSE {})

\* the commit of a handler: the effects whose dependency is one of the
\* objects replaced, and the field effects, run on the new state; a render
\* that throws runs none
Commit(replaced) ==
    live' = IF RenderThrows' THEN live
            ELSE EffectsRun(live, refs, replaced \cup FieldEffects, Chain')

----------------------------------------------------------------------------
(* The parameter API: useAudioEngine.ts, lines 2325-2331, 2809-2824 and    *)
(* the setters exported at lines 3830-3836.                                *)

\* the most calls of the parameter API, host renders and meter reports a
\* behaviour makes
MaxCalls == 2

\* arguments the callers pass
BandGains == {400, -300, 60}

CompressorWrites == {<<"threshold", -1000>>, <<"bypass", TRUE>>}

LimiterWrites == {<<"threshold", -200>>, <<"softClip", FALSE>>}

SaturationWrites == {<<"drive", 150>>, <<"bypass", TRUE>>}

StereoWrites == {<<"width", 300>>, <<"mono", TRUE>>}

OutputWrites == {<<"trim", 300>>, <<"bypass", TRUE>>}

Volumes == {150, 50}

Call == Alive /\ calls < MaxCalls /\ calls' = calls + 1

\* applyBandGain(band, gainDb)
ApplyBandGain(band, gainDb) ==
    LET g    == Clamp(gainDb, -240, 240)
        node == IF "filters" \in refs THEN [live EXCEPT !.eq[band] = g] ELSE live
    IN /\ Call
       /\ eq' = [eq EXCEPT ![band] = g]
       /\ UNCHANGED <<compressor, limiter, saturation, stereo, output, volume,
                      isMuted, previousVolume, presetVars, outsideChain>>
       /\ live' = EffectsRun(node, refs, IF eq' /= eq THEN {"eq"} ELSE {}, Chain')

\* setCompressor(prev => ({ ...prev, [field]: value }))
SetCompressor(field, value) ==
    /\ Call
    /\ compressor' = [compressor EXCEPT ![field] = value]
    /\ UNCHANGED <<eq, limiter, saturation, stereo, output, volume, isMuted,
                   previousVolume, presetVars, outsideChain>>
    /\ Commit({"compressor"})

\* setLimiter(prev => ({ ...prev, [field]: value }))
SetLimiter(field, value) ==
    /\ Call
    /\ limiter' = [limiter EXCEPT ![field] = value]
    /\ UNCHANGED <<eq, compressor, saturation, stereo, output, volume, isMuted,
                   previousVolume, presetVars, outsideChain>>
    /\ Commit({"limiter"})

\* setSaturation(prev => ({ ...prev, [field]: value }))
SetSaturation(field, value) ==
    /\ Call
    /\ saturation' = [saturation EXCEPT ![field] = value]
    /\ UNCHANGED <<eq, compressor, limiter, stereo, output, volume, isMuted,
                   previousVolume, presetVars, outsideChain>>
    /\ Commit({"saturation"})

\* setStereo(prev => ({ ...prev, [field]: value }))
SetStereo(field, value) ==
    /\ Call
    /\ stereo' = [stereo EXCEPT ![field] = value]
    /\ UNCHANGED <<eq, compressor, limiter, saturation, output, volume, isMuted,
                   previousVolume, presetVars, outsideChain>>
    /\ Commit({"stereo"})

\* setOutput(prev => ({ ...prev, [field]: value }))
SetOutput(field, value) ==
    /\ Call
    /\ output' = [output EXCEPT ![field] = value]
    /\ UNCHANGED <<eq, compressor, limiter, saturation, stereo, volume, isMuted,
                   previousVolume, presetVars, outsideChain>>
    /\ Commit({})

\* the state writes of handleVolumeChange(newVolume)
VolumeChange(newVolume) ==
    LET clampedVolume == Clamp(newVolume, 0, 100)
    IN /\ volume' = clampedVolume
       /\ isMuted' = (clampedVolume = 0)

\* handleVolumeChange(newVolume)
HandleVolumeChange(newVolume) ==
    /\ Call
    /\ VolumeChange(newVolume)
    /\ UNCHANGED <<eq, compressor, limiter, saturation, stereo, output,
                   previousVolume, presetVars, outsideChain>>
    /\ Commit({})

\* toggleMute()
ToggleMute ==
    /\ Call
    /\ IF isMuted
       THEN /\ VolumeChange(IF previousVolume > 0 THEN previousVolume ELSE 100)
            /\ UNCHANGED previousVolume
       ELSE /\ previousVolume' = volume
            /\ VolumeChange(0)
    /\ UNCHANGED <<eq, compressor, limiter, saturation, stereo, output,
                   presetVars, outsideChain>>
    /\ Commit({})

\* setGainMatchEnabled(enabled), and the effect of lines 2900-2902 that
\* zeroes the offset once matching is off
SetGainMatchEnabled(enabled) ==
    /\ Call
    /\ enabled /= gainMatchEnabled
    /\ gainMatchEnabled' = enabled
    /\ gainMatchOffset' = IF enabled THEN gainMatchOffset ELSE 0
    /\ UNCHANGED <<chainVars, presetA, presetB, activePresetSlot, storedPresets,
                   meterLufs, fileVars, outsideChain>>
    /\ Commit({})

\* setActivePresetSlot(slot)
SetActivePresetSlot(slot) ==
    /\ Call
    /\ slot /= activePresetSlot
    /\ activePresetSlot' = slot
    /\ UNCHANGED <<chainVars, presetA, presetB, gainMatchEnabled, gainMatchOffset,
                   storedPresets, meterLufs, fileVars, live, outsideChain>>

----------------------------------------------------------------------------
(* Presets: useAudioEngine.ts, lines 2904-2993.  A preset's lufs is <<>>   *)
(* when the field is absent, else <<value>>.                               *)

\* a snapshot without the meter reading
BuildPresetNoLufs ==
    [eq |-> eq, compressor |-> compressor, limiter |-> limiter,
     saturation |-> saturation, stereo |-> stereo, output |-> output,
     lufs |-> <<>>]

\* buildPreset(name)
BuildPreset ==
    [eq |-> eq, compressor |-> compressor, limiter |-> limiter,
     saturation |-> saturation, stereo |-> stereo, output |-> output,
     lufs |-> <<meterLufs>>]

\* a - b of JavaScript numbers
Minus(a, b) == IF a = NaN \/ b = NaN THEN NaN ELSE a - b

\* clamp(n, min, max) with Math.min and Math.max, which return NaN for NaN
ClampNumber(n, min, max) == IF n = NaN THEN NaN ELSE Clamp(n, min, max)

\* a recall that reads the meter for both presets
LufsOfMeter(preset) == meterLufs

\* preset.lufs ?? meter.lufsIntegrated; a null preset gives the meter value
LufsOf(preset) ==
    IF preset = NoPreset \/ preset.lufs = <<>> THEN meterLufs ELSE preset.lufs[1]

\* the state writes of applyPreset(preset)
ApplyPreset(preset) ==
    /\ eq' = [b \in Bands |->
                IF b \in DOMAIN preset.eq THEN preset.eq[b] ELSE DEFAULT_EQ[b]]
    /\ compressor' = preset.compressor
    /\ limiter' = preset.limiter
    /\ saturation' = preset.saturation
    /\ stereo' = preset.stereo
    /\ output' = preset.output

\* the objects applyPreset replaces
PresetObjects == {"compressor", "limiter", "saturation", "stereo"}

\* storePresetSlot(slot)
StorePresetSlot(slot) ==
    /\ Call
    /\ presetA' = IF slot = "A" THEN BuildPreset ELSE presetA
    /\ presetB' = IF slot = "A" THEN presetB ELSE BuildPreset
    /\ storedPresets' = [storedPresets EXCEPT ![slot] = BuildPreset]
    /\ UNCHANGED <<chainVars, activePresetSlot, gainMatchEnabled, gainMatchOffset,
                   meterLufs, fileVars, live, outsideChain>>

\* recallPresetSlot(slot); an empty slot returns at line 2943
RecallPresetSlot(slot) ==
    LET preset        == IF slot = "A" THEN presetA ELSE presetB
        currentPreset == IF activePresetSlot = "A" THEN presetA ELSE presetB
    IN /\ Call
       /\ IF preset = NoPreset
          THEN UNCHANGED <<chainVars, presetVars, live>>
          ELSE /\ gainMatchOffset' =
                     IF gainMatchEnabled
                     THEN ClampNumber(Minus(LufsOf(currentPreset), LufsOf(preset)),
                                      -120, 120)
                     ELSE 0
               /\ activePresetSlot' = slot
               /\ ApplyPreset(preset)
               /\ UNCHANGED <<volume, isMuted, previousVolume, presetA, presetB,
                              gainMatchEnabled, storedPresets, meterLufs, fileVars>>
               /\ Commit(PresetObjects)
       /\ UNCHANGED outsideChain

\* JSON.stringify(preset) and JSON.parse(text), lines 2934, 2967 and 2981.
\* The text of a number is its sign and decimal digits, of a boolean the
\* word; a member whose value is undefined is left out of the text, and a
\* member the text lacks reads as undefined after parsing.
BoolFields == {"bypass", "softClip", "mono"}

DigitChars == <<"0", "1", "2", "3", "4", "5", "6", "7", "8", "9">>

RECURSIVE Digits(_)
Digits(n) ==
    IF n < 10 THEN <<DigitChars[n + 1]>>
    ELSE Append(Digits(n \div 10), DigitChars[(n % 10) + 1])

\* a writer that drops the sign
NumberTextUnsigned(n) == Digits(IF n < 0 THEN -n ELSE n)

NumberText(n) == IF n < 0 THEN <<"-">> \o Digits(-n) ELSE Digits(n)

DigitValue(c) == (CHOOSE i \in 1..10 : DigitChars[i] = c) - 1

RECURSIVE DigitsValue(_)
DigitsValue(t) ==
    IF t = <<>> THEN 0
    ELSE 10 * DigitsValue(SubSeq(t, 1, Len(t) - 1)) + DigitValue(t[Len(t)])

NumberValue(t) == IF t[1] = "-" THEN -DigitsValue(Tail(t)) ELSE DigitsValue(t)

ValueText(field, v) ==
    IF field \in BoolFields THEN (IF v THEN <<"true">> ELSE <<"false">>)
    ELSE NumberText(v)

TextValue(field, t) ==
    IF field \in BoolFields THEN t = <<"true">> ELSE NumberValue(t)

ObjectText(obj) == [f \in DOMAIN obj |-> ValueText(f, obj[f])]

TextObject(t) == [f \in DOMAIN t |-> TextValue(f, t[f])]

\* the sub-objects of a MasteringPreset
PresetObjectKeys ==
    {"eq", "compressor", "limiter", "saturation", "stereo", "output"}

JsonStringify(preset) ==
    [k \in {j \in PresetObjectKeys : preset[j] /= Undefined}
              \cup (IF preset.lufs = <<>> THEN {} ELSE {"lufs"}) |->
        IF k = "lufs" THEN NumberText(preset.lufs[1]) ELSE ObjectText(preset[k])]

JsonParse(text) ==
    [k \in PresetObjectKeys \cup {"lufs"} |->
        IF k = "lufs"
        THEN IF "lufs" \in DOMAIN text THEN <<NumberValue(text.lufs)>> ELSE <<>>
        ELSE IF k \in DOMAIN text THEN TextObject(text[k]) ELSE Undefined]

\* exportPresetJson()
ExportPresetJson ==
    /\ Call
    /\ presetFile' = JsonStringify(BuildPreset)
    /\ presetFileFrom' = [k \in PresetObjectKeys |-> BuildPreset[k]]
    /\ UNCHANGED <<chainVars, presetA, presetB, activePresetSlot, gainMatchEnabled,
                   gainMatchOffset, storedPresets, meterLufs, importResult,
                   live, outsideChain>>

\* a file whose text JSON.parse rejects
NotJson == [syntaxError |-> TRUE]

\* what JSON.parse makes of the files the user picks for import: one with
\* every sub-object and values outside the control ranges, one with only
\* the three sub-objects the loader requires, one without limiter, one
\* whose lufs is not a number, one without eq, and a file that is not JSON
ImportDocs ==
    { [eq |-> [sub |-> 400],
       compressor |-> [threshold |-> -1000, ratio |-> 2, attack |-> 10,
                       release |-> 250, makeup |-> 0, bypass |-> FALSE],
       limiter |-> DefaultLimiter, saturation |-> DefaultSaturation,
       stereo |-> DefaultStereo, output |-> [trim |-> 300, bypass |-> FALSE],
       lufs |-> <<-140>>],
      [eq |-> DEFAULT_EQ, compressor |-> DefaultCompressor,
       limiter |-> DefaultLimiter, saturation |-> Undefined,
       stereo |-> Undefined, output |-> Undefined, lufs |-> <<>>],
      [eq |-> DEFAULT_EQ, compressor |-> DefaultCompressor,
       limiter |-> Undefined, saturation |-> DefaultSaturation,
       stereo |-> DefaultStereo, output |-> DefaultOutput, lufs |-> <<>>],
      [eq |-> DEFAULT_EQ, compressor |-> DefaultCompressor,
       limiter |-> DefaultLimiter, saturation |-> DefaultSaturation,
       stereo |-> DefaultStereo, output |-> DefaultOutput, lufs |-> <<NaN>>],
      [eq |-> Undefined, compressor |-> DefaultCompressor,
       limiter |-> DefaultLimiter, saturation |-> DefaultSaturation,
       stereo |-> DefaultStereo, output |-> [trim |-> 60, bypass |-> FALSE],
       lufs |-> <<>>],
      NotJson }

\* a loader that does not require eq
ImportThrowsLax(parsed) ==
    \/ parsed = NotJson
    \/ parsed.compressor = Undefined
    \/ parsed.limiter = Undefined

\* the throws of importPresetJson: JSON.parse (line 2981) and the check of
\* the required sub-objects (line 2982)
ImportThrows(parsed) ==
    \/ parsed = NotJson
    \/ parsed.eq = Undefined
    \/ parsed.compressor = Undefined
    \/ parsed.limiter = Undefined

\* importPresetJson(file), parsed being what JSON.parse makes of the file
ImportPresetJson(parsed) ==
    /\ Call
    /\ IF ImportThrows(parsed)
       THEN /\ importResult' = "throws"
            /\ UNCHANGED <<chainVars, presetA, presetB, activePresetSlot,
                           gainMatchEnabled, gainMatchOffset, storedPresets,
                           meterLufs, presetFile, presetFileFrom, live>>
       ELSE /\ importResult' = "ok"
            /\ ApplyPreset(parsed)
            /\ presetA' = IF activePresetSlot = "A" THEN parsed ELSE presetA
            /\ presetB' = IF activePresetSlot = "A" THEN presetB ELSE parsed
            /\ storedPresets' = [storedPresets EXCEPT ![activePresetSlot] = parsed]
            /\ UNCHANGED <<volume, isMuted, previousVolume, activePresetSlot,
                           gainMatchEnabled, gainMatchOffset, meterLufs,
                           presetFile, presetFileFrom>>
            /\ Commit(PresetObjects)
    /\ UNCHANGED outsideChain

\* importPresetJson of the file exportPresetJson last produced
ImportExportedPreset ==
    /\ presetFile /= NoFile
    /\ ImportPresetJson(JsonParse(presetFile))

\* the integrated loudness the meter reports, in tenths of a LUFS
MeterReadings == {-140}

\* meterRef.current.port.onmessage (line 3359)
MeterMessage(lufsIntegrated) ==
    /\ Alive
    /\ "meter" \in refs
    /\ meterLufs /= lufsIntegrated
    /\ meterLufs' = lufsIntegrated
    /\ UNCHANGED calls
    /\ UNCHANGED <<chainVars, presetA, presetB, activePresetSlot, gainMatchEnabled,
                   gainMatchOffset, storedPresets, fileVars, live, outsideChain>>

----------------------------------------------------------------------------
(* initAudio: useAudioEngine.ts, lines 3320-3495.  A call runs up to its   *)
(* next await in one step; initPc is where the call is suspended.          *)

\* the most AudioContexts a behaviour creates
MaxContexts == 2

InitCalls == {1, 2}

\* refs assigned before new AudioWorkletNode(ctx, "meter-processor")
AnalyserRefs == {"analyser", "vizAnalyserL", "vizAnalyserR"}

\* refs assigned from the meter node up to the limiter node
MeterToPanRefs ==
    {"meter", "compressor", "compressorMakeup", "saturationShaper",
     "saturationDryGain", "saturationWetGain", "saturationSum", "stereoSplit",
     "stereoMerge", "stereoGainLL", "stereoGainRR", "stereoGainLR",
     "stereoGainRL", "stereoPan"}

\* start() without its isRunning test
StartLoopAgain ==
    /\ vizRunning' = TRUE
    /\ rafId' = "live"
    /\ rafPending' = rafPending + 1
    /\ lowFpsDuration' = 0
    /\ sinceFrame' = 0
    /\ sinceDraw' = IF vizRunning THEN sinceDraw ELSE NoDraw

\* StableVisualizerLoop.start() (lines 1877-1883)
StartLoop ==
    /\ vizRunning' = TRUE
    /\ rafId' = IF vizRunning THEN rafId ELSE "live"
    /\ rafPending' = IF vizRunning THEN rafPending ELSE rafPending + 1
    /\ lowFpsDuration' = IF vizRunning THEN lowFpsDuration ELSE 0
    /\ sinceFrame' = IF vizRunning THEN sinceFrame ELSE 0
    /\ sinceDraw' = IF vizRunning THEN sinceDraw ELSE NoDraw

\* StableVisualizerLoop.stop() (lines 1885-1891)
StopLoop ==
    /\ vizRunning' = FALSE
    /\ rafId' = "null"
    /\ rafPending' = IF rafId = "live" THEN rafPending - 1 ELSE rafPending
    /\ UNCHANGED startVars

\* the effect of lines 3655-3669 in a render with these two values
VisualizerEffect(active, blocked) ==
    IF ~active \/ blocked THEN StopLoop
    ELSE IF audioCtxRef /= 0 /\ "analyser" \in refs THEN StartLoop
    ELSE UNCHANGED <<vizRunning, rafVars, startVars>>

\* the catch block of initAudio
InitFail(c) ==
    /\ error' = "init"
    /\ playbackState' = "error"
    /\ initRet' = [initRet EXCEPT ![c] = "false"]
    /\ initPc' = [initPc EXCEPT ![c] = "done"]

\* initAudio() is called; runs to the first addModule, or to the last
\* ensureAudioCtxResumed when the context already exists.  Calls have no
\* identity: a new call is numbered with the first number not in flight.
InitBegin(c) ==
    /\ Alive
    /\ initPc[c] \in {"idle", "done"}
    /\ \A d \in InitCalls : d < c => initPc[d] \notin {"idle", "done"}
    /\ initRet' = [initRet EXCEPT ![c] = "none"]
    /\ IF isInitialized
       THEN /\ initPc' = [initPc EXCEPT ![c] = "resume"]
            /\ UNCHANGED <<audioCtxRef, ctxCount, initCtx, playbackState, error>>
       ELSE /\ playbackState' = "initializing"
            /\ error' = "none"
            /\ IF audioCtxRef = 0
               THEN /\ ctxCount < MaxContexts
                    /\ ctxCount' = ctxCount + 1
                    /\ audioCtxRef' = ctxCount + 1
                    /\ initCtx' = [initCtx EXCEPT ![c] = ctxCount + 1]
                    /\ initPc' = [initPc EXCEPT ![c] = "loadMeter"]
               ELSE /\ initPc' = [initPc EXCEPT ![c] = "resume"]
                    /\ UNCHANGED <<audioCtxRef, ctxCount, initCtx>>
    /\ initViz' = [initViz EXCEPT ![c] = visualizerActive /\ ~visualizerBlocked]
    /\ UNCHANGED <<chainVars, presetVars, ctxModules, refs, wiringVars, live, isInitialized,
                   elementSourced, mediaRecorderSupported, hostArgs, loopVars,
                   vizHistory, calls, isPlaying, mediaVars, listVars,
                   exportVars,
                   detachedVars>>

\* addModule("/worklets/meter-processor.js") settles; on success the call
\* goes on to addModule("/worklets/limiter-processor.js") on the context
\* audioCtxRef.current then holds
InitMeterLoaded(c, ok) ==
    /\ initPc[c] = "loadMeter"
    /\ IF ok /\ audioCtxRef /= 0
       THEN /\ ctxModules' = ctxModules \cup {<<initCtx[c], "meter">>}
            /\ initCtx' = [initCtx EXCEPT ![c] = audioCtxRef]
            /\ initPc' = [initPc EXCEPT ![c] = "loadLimiter"]
            /\ UNCHANGED <<initRet, playbackState, error>>
       ELSE /\ ctxModules' = IF ok THEN ctxModules \cup {<<initCtx[c], "meter">>}
                             ELSE ctxModules
            /\ InitFail(c)
            /\ UNCHANGED initCtx
    /\ UNCHANGED <<chainVars, presetVars, audioCtxRef, ctxCount, refs, wiringVars, live,
                   isInitialized, elementSourced, mediaRecorderSupported,
                   hostVars, calls, isPlaying, mediaVars, listVars,
                   exportVars, detachedVars>>

\* how far the build (lines 3342-3483) gets: 0 stops at a null context,
\* 1 at the meter node when the context lacks its processor, 2 likewise at
\* the limiter node, 3 at createMediaElementSource on an element that
\* already has a source, 4 is isInitializedRef.current = true
BuildStage(mods) ==
    IF audioCtxRef = 0 THEN 0
    ELSE IF <<audioCtxRef, "meter">> \notin mods THEN 1
    ELSE IF <<audioCtxRef, "limiter">> \notin mods THEN 2
    ELSE IF elementSourced THEN 3
    ELSE 4

\* the nodes the build connects (lines 3421-3459): every node but the
\* recorder, which takes the destination's stream
ConnectedNodes == PreSourceRefs \cup PostSourceRefs

\* the node refs set once the build has stopped at stage
BuildRefs(stage) ==
    refs \cup (IF stage >= 1 THEN AnalyserRefs ELSE {})
         \cup (IF stage >= 2 THEN MeterToPanRefs ELSE {})
         \cup (IF stage >= 3 THEN PreSourceRefs ELSE {})
         \cup (IF stage >= 4 THEN PostSourceRefs ELSE {})
         \cup (IF stage >= 4 /\ mediaRecorderSupported THEN {"recorder"} ELSE {})

\* the node values once the build has stopped at stage: a node created
\* holds its defaults, the band filters the gains of the eq the callback
\* captured
BuildLive(stage) ==
    LET fresh == NodeDefaults(initAudioEq)
    IN [eq     |-> IF stage >= 3 THEN fresh.eq ELSE live.eq,
        comp   |-> IF stage >= 2 THEN fresh.comp ELSE live.comp,
        makeup |-> IF stage >= 2 THEN fresh.makeup ELSE live.makeup,
        sat    |-> IF stage >= 2 THEN fresh.sat ELSE live.sat,
        stereo |-> IF stage >= 2 THEN fresh.stereo ELSE live.stereo,
        lim    |-> IF stage >= 3 THEN fresh.lim ELSE live.lim,
        out    |-> IF stage >= 3 THEN fresh.out ELSE live.out]

\* addModule("/worklets/limiter-processor.js") settles; on success the
\* call builds the graph and goes on to the last ensureAudioCtxResumed
InitLimiterLoaded(c, ok) ==
    LET mods  == IF ok THEN ctxModules \cup {<<initCtx[c], "limiter">>}
                 ELSE ctxModules
        stage == BuildStage(mods)
    IN /\ initPc[c] = "loadLimiter"
       /\ ctxModules' = mods
       /\ IF ok
          THEN /\ refs' = BuildRefs(stage)
               /\ live' = BuildLive(stage)
               /\ wired' = IF stage = 4 THEN wired \cup ConnectedNodes ELSE wired
               /\ vizTaps' = (stage = 4 \/ vizTaps)
               /\ UNCHANGED ctxClosed
               /\ IF stage = 4
                  THEN /\ elementSourced' = TRUE
                       /\ isInitialized' = TRUE
                       /\ initPc' = [initPc EXCEPT ![c] = "resume"]
                       /\ UNCHANGED <<initRet, playbackState, error>>
                  ELSE /\ InitFail(c)
                       /\ UNCHANGED <<elementSourced, isInitialized>>
          ELSE /\ InitFail(c)
               /\ UNCHANGED <<refs, wiringVars, live, elementSourced, isInitialized>>
       /\ UNCHANGED <<chainVars, presetVars, audioCtxRef, ctxCount,
                      mediaRecorderSupported, hostVars, calls,
                      initCtx, isPlaying, mediaVars, listVars,
                   exportVars,
                      detachedVars>>

\* the last ensureAudioCtxResumed settles: startVisualizer() under the
\* visualizerActive and visualizerBlocked the call captured (lines 3324 and
\* 3480), then setPlayback and return true
InitFinish(c) ==
    /\ initPc[c] = "resume"
    /\ playbackState' = IF audioPaused THEN "ready" ELSE "playing"
    /\ initRet' = [initRet EXCEPT ![c] = "true"]
    /\ initPc' = [initPc EXCEPT ![c] = "done"]
    /\ IF initViz[c] THEN StartLoop ELSE UNCHANGED <<vizRunning, rafVars, startVars>>
    /\ UNCHANGED <<chainVars, presetVars, graphVars, hostArgs, frameVars,
                   vizHistory, initViz, calls, initCtx, isPlaying, error, mediaVars,
                   listVars, exportVars, detachedVars>>

\* one step of the initAudio call c
InitAudio(c) ==
    \/ InitBegin(c)
    \/ \E ok \in BOOLEAN : InitMeterLoaded(c, ok)
    \/ \E ok \in BOOLEAN : InitLimiterLoaded(c, ok)
    \/ InitFinish(c)

----------------------------------------------------------------------------
(* The host component: the visualizerActive argument of the hook and the   *)
(* visualizer's auto-disable (lines 2255-2261, 3687-3692).  A change of    *)
(* either re-creates the initAudio callback, which then captures the eq    *)
(* of that render.                                                         *)

\* the host renders the hook with visualizerActive = active
SetVisualizerActive(active) ==
    /\ Call
    /\ active /= visualizerActive
    /\ visualizerActive' = active
    /\ visualizerBlocked' = IF active THEN visualizerBlocked ELSE FALSE
    /\ initAudioEq' = eq
    /\ VisualizerEffect(active, visualizerBlocked')
    /\ disableSignals' = IF active THEN disableSignals ELSE 0
    /\ drawsAfterDisable' = IF active THEN drawsAfterDisable ELSE "none"
    /\ UNCHANGED <<chainVars, presetVars, graphVars, initVars, playVars,
                   listVars, exportVars, detachedVars, frameVars,
                   initViz>>

\* handleVisualizerAutoDisable()
HandleVisualizerAutoDisable ==
    /\ Call
    /\ visualizerActive /\ ~visualizerBlocked
    /\ visualizerBlocked' = TRUE
    /\ initAudioEq' = eq
    /\ StopLoop
    /\ UNCHANGED <<chainVars, presetVars, graphVars, initVars, playVars,
                   listVars, exportVars, detachedVars, visualizerActive,
                   frameVars, vizHistory, initViz>>

\* setVizMode(mode) with a mode other than the current one: the effect of
\* lines 3655-3669 runs again
SetVizMode ==
    /\ Call
    /\ VisualizerEffect(visualizerActive, visualizerBlocked)
    /\ UNCHANGED <<chainVars, presetVars, graphVars, initVars, playVars,
                   listVars, exportVars, detachedVars, hostArgs, frameVars, vizHistory, initViz>>

\* the most frames the loop draws or stops on
MaxFrames == 9

\* autoDisable calls are counted up to this number
MaxSignals == 2

\* frameInterval = 1000 / 60 (line 1770), in thirds of a millisecond
FrameInterval == 50

\* lowFpsThreshold (line 1779), in hundredths of a frame per second
LowFpsThreshold == 3200

\* lowFpsWindow (line 1780), in thirds of a millisecond
LowFpsWindow == 12000

\* renderEvery always 1: the mutation of RenderEvery that never degrades
RenderEveryFrame(ema) == 1

\* renderEvery (line 1922)
RenderEvery(ema) == IF ema < 3000 THEN 3 ELSE IF ema < 4500 THEN 2 ELSE 1

\* the passes a tick draws: renderCritical, and renderBackground on every
\* renderEvery-th frame
Passes(ema, count) == IF count % RenderEvery(ema) = 0 THEN "both" ELSE "critical"

\* the time since the latest drawn frame, dt later; an interval or more
\* counts as one interval
DrawAge(dt) ==
    IF sinceDraw = NoDraw THEN NoDraw ELSE Min2(sinceDraw + dt, FrameInterval)

\* StableVisualizerLoop.loop (lines 1893-1930) on an animation frame that
\* comes dt after the latest one (or after start()).  A frame whose elapsed
\* is under frameInterval only requests the next one.  Any other frame
\* moves lastFrameTime to now - (elapsed % frameInterval).  The loop calls
\* handleVisualizerAutoDisable (lines 2255-2261), and the render that
\* follows re-creates the initAudio callback.
VisualizerTick(dt) ==
    LET elapsed    == sinceFrame + dt
        instantFps == IF elapsed > 0 THEN 300000 \div elapsed ELSE 6000
        ema        == (fpsEma * 9 + instantFps) \div 10
        low        == IF ema < LowFpsThreshold THEN lowFpsDuration + elapsed ELSE 0
        tick(p)    == [elapsed |-> elapsed, sinceDraw |-> DrawAge(dt), passes |-> p]
        \* the requests left once this one runs, and what rafId then names
        left       == rafPending - 1
        named      == IF rafId = "live" /\ rafPending = 1 THEN "stale" ELSE rafId
    IN /\ Alive
       /\ rafPending > 0
       /\ frameCount < MaxFrames
       /\ IF ~vizRunning
          THEN /\ rafId' = named
               /\ rafPending' = left
               /\ UNCHANGED <<vizRunning, startVars, frameVars, hostArgs,
                              vizHistory>>
          ELSE IF elapsed < FrameInterval
          THEN /\ sinceFrame' = elapsed
               /\ sinceDraw' = DrawAge(dt)
               /\ lastTick' = tick("none")
               /\ rafId' = "live"
               /\ rafPending' = left + 1
               /\ UNCHANGED <<vizRunning, fpsEma, frameCount, lowFpsDuration,
                              hostArgs, vizHistory>>
          ELSE /\ sinceFrame' = elapsed % FrameInterval
               /\ frameCount' = frameCount + 1
               /\ fpsEma' = ema
               /\ lowFpsDuration' = low
               /\ IF low > LowFpsWindow
                  THEN /\ vizRunning' = FALSE
                       /\ rafId' = "null"
                       /\ rafPending' = IF named = "live" THEN left - 1 ELSE left
                       /\ visualizerBlocked' = TRUE
                       /\ initAudioEq' = IF visualizerBlocked THEN initAudioEq ELSE eq
                       /\ disableSignals' = Min2(disableSignals + 1, MaxSignals)
                       /\ sinceDraw' = DrawAge(dt)
                       /\ lastTick' = tick("disable")
                       /\ UNCHANGED <<visualizerActive, drawsAfterDisable>>
                  ELSE /\ drawsAfterDisable' =
                              IF disableSignals = 0 \/ drawsAfterDisable = "both"
                              THEN drawsAfterDisable
                              ELSE Passes(ema, frameCount')
                       /\ sinceDraw' = 0
                       /\ lastTick' = tick(Passes(ema, frameCount'))
                       /\ rafId' = "live"
                       /\ rafPending' = left + 1
                       /\ UNCHANGED <<vizRunning, hostArgs, disableSignals>>
       /\ UNCHANGED <<chainVars, presetVars, graphVars, initVars, playVars,
                      listVars, exportVars, detachedVars, initViz, calls>>

\* the time between animation frames: one sixtieth of a second, and the
\* five seconds of a stalled page
TickElapsed == {50, 15000}

----------------------------------------------------------------------------
(* The visualizer loop under initAudio calls, host renders and mode        *)
(* changes.                                                                *)

VisualizerNext ==
    \/ \E c \in InitCalls : InitBegin(c)
    \/ \E c \in InitCalls : InitMeterLoaded(c, TRUE)
    \/ \E c \in InitCalls : InitLimiterLoaded(c, TRUE)
    \/ \E c \in InitCalls : InitFinish(c)
    \/ \E active \in BOOLEAN : SetVisualizerActive(active)
    \/ SetVizMode
    \/ \E elapsed \in TickElapsed : VisualizerTick(elapsed)

VisualizerSpec == Init /\ [][VisualizerNext]_vars

----------------------------------------------------------------------------
(* The loop's degrade policy: animation frames that come 12 ms, one second *)
(* and five seconds apart, on a loop started by initAudio and stopped and  *)
(* started again by the host.                                              *)

DegradeTicks == {36, 3000, 15000}

DegradeNext ==
    \/ InitBegin(1)
    \/ InitMeterLoaded(1, TRUE)
    \/ InitLimiterLoaded(1, TRUE)
    \/ InitFinish(1)
    \/ \E dt \in DegradeTicks : VisualizerTick(dt)

DegradeSpec == Init /\ [][DegradeNext]_vars

----------------------------------------------------------------------------
(* The signal chain: parameter API, effects and initAudio by one caller.   *)

\* the documents imported between chain edits: those with eq, of numeric
\* lufs or none
ChainImportDocs ==
    {parsed \in ImportDocs \ {NotJson} :
        parsed.eq /= Undefined /\ parsed.lufs /= <<NaN>>}

ChainNext ==
    \/ \E band \in Bands, g \in BandGains : ApplyBandGain(band, g)
    \/ \E w \in CompressorWrites : SetCompressor(w[1], w[2])
    \/ \E w \in LimiterWrites : SetLimiter(w[1], w[2])
    \/ \E w \in SaturationWrites : SetSaturation(w[1], w[2])
    \/ \E w \in StereoWrites : SetStereo(w[1], w[2])
    \/ \E w \in OutputWrites : SetOutput(w[1], w[2])
    \/ \E v \in Volumes : HandleVolumeChange(v)
    \/ ToggleMute
    \/ \E enabled \in BOOLEAN : SetGainMatchEnabled(enabled)
    \/ \E slot \in Slots : SetActivePresetSlot(slot)
    \/ \E slot \in Slots : StorePresetSlot(slot)
    \/ \E slot \in Slots : RecallPresetSlot(slot)
    \/ \E parsed \in ChainImportDocs : ImportPresetJson(parsed)
    \/ \E l \in MeterReadings : MeterMessage(l)
    \/ InitAudio(1)
    \/ \E active \in BOOLEAN : SetVisualizerActive(active)
    \/ HandleVisualizerAutoDisable

ChainSpec == Init /\ [][ChainNext]_vars

----------------------------------------------------------------------------
(* The playlist and the life of the graph: useAudioEngine.ts, lines        *)
(* 2163-2210, 2477-2557, 2590-2709, 3250-3318, 3513-3532, 3745-3750.       *)
(* playlist is the sequence of item ids; currentIndex counts from 0.  A    *)
(* "pause" event of the audio element is delivered within the step that    *)
(* pauses it.                                                              *)

\* the most items the playlist holds
MaxTracks == 2

\* the most playlist edits a behaviour makes
MaxListOps == 1

ListOp == Alive /\ listOps < MaxListOps /\ listOps' = listOps + 1

TrackIds == 1..MaxTracks

\* ids for n new items, none of them in base
NewItems(base, n) ==
    LET used == {base[i] : i \in DOMAIN base}
        free == TrackIds \ used
        lo   == CHOOSE x \in free : \A y \in free : x <= y
    IN IF n = 1 THEN <<lo>>
       ELSE <<lo, CHOOSE x \in free \ {lo} : \A y \in free \ {lo} : x <= y>>

\* the items of list whose id is not in ids, in order
RECURSIVE Without(_, _)
Without(list, ids) ==
    IF list = <<>> THEN <<>>
    ELSE IF Head(list) \in ids THEN Without(Tail(list), ids)
    ELSE <<Head(list)>> \o Without(Tail(list), ids)

\* the persist effect (lines 3605-3618) after a handler; rerun tells
\* whether playlist or currentIndex was given a new value: the cleanup
\* clears the timer, then an empty playlist calls clearStoredPlaylist() and
\* any other arms the timer anew; unmounting only runs the cleanup
PersistEffect(rerun) ==
    /\ IF ~mounted'
       THEN saveTimer' = NoTimer /\ UNCHANGED clearPending
       ELSE IF ~rerun THEN UNCHANGED <<clearPending, saveTimer>>
       ELSE IF playlist' = <<>>
       THEN clearPending' = TRUE /\ saveTimer' = NoTimer
       ELSE /\ saveTimer' = [order |-> playlist',
                             currentIndex |-> currentIndex']
            /\ UNCHANGED clearPending
    /\ UNCHANGED <<stored, loadRead>>

\* the object URLs of the items of the playlist
PlaylistUrls == {itemUrl[id] : id \in DOMAIN itemUrl}

\* the URLs of the items of list, the ones in fresh newly made by
\* URL.createObjectURL in the order of fresh (lines 2172, 2495)
UrlsOf(list, fresh) ==
    [id \in {list[i] : i \in DOMAIN list} |->
        IF \E j \in DOMAIN fresh : fresh[j] = id
        THEN urlCount + (CHOOSE j \in DOMAIN fresh : fresh[j] = id)
        ELSE itemUrl[id]]

\* revokePlaylistUrls(playlist) of the cleanup of lines 3745-3750, run with
\* the playlist the effect was set up with, after the handler revoked own
CleanupRevokes(own) == revoked' = (revoked \cup own) \cup PlaylistUrls

\* teardownAudio() run by the cleanup of the effect whose dependencies
\* hold playlist (lines 3745-3750), after a handler that left the element
\* paused = p, playbackState = st and isPlaying = ip; filtersRef is not
\* cleared
\* the refs teardownAudio does not set to null (lines 3293-3317)
NotCleared == {"filters"}

\* the refs whose node teardownAudio disconnects (lines 3264-3285)
Disconnected == NodeRefs \ {"filters", "recorder"}

Teardown(p, st, ip) ==
    /\ audioCtxRef' = 0
    /\ refs' = refs \cap NotCleared
    /\ wired' = wired \ (refs \cap Disconnected)
    /\ ctxClosed' = IF audioCtxRef /= 0 THEN ctxClosed \cup {audioCtxRef}
                    ELSE ctxClosed
    /\ vizTaps' = (mounted' /\ vizTaps)
    /\ isInitialized' = FALSE
    /\ audioPaused' = TRUE
    /\ playbackState' = IF p \/ ~mounted' THEN st ELSE "paused"
    /\ isPlaying' = IF p \/ ~mounted' THEN ip ELSE FALSE
    /\ StopLoop
    /\ UNCHANGED <<ctxCount, ctxModules, live, elementSourced,
                   mediaRecorderSupported, chainVars, presetVars, hostArgs,
                   frameVars, vizHistory, initViz,
                   initVars, exportVars, detachedVars>>

\* addFilesToPlaylist(files, mode) with n files
AddFilesToPlaylist(n, mode) ==
    LET shouldReplace   == mode = "replace"
        base            == IF shouldReplace THEN <<>> ELSE playlist
        shouldLoadFirst == shouldReplace \/ Len(playlist) = 0
        nextItems       == NewItems(base, n)
    IN /\ ListOp
       /\ Len(base) + n <= MaxTracks
       /\ artwork' = IF shouldReplace THEN {} ELSE artwork
       /\ error' = "none"
       /\ playlist' = base \o nextItems
       /\ currentIndex' = IF shouldReplace THEN 0 ELSE currentIndex
       /\ audioSrc' = IF shouldLoadFirst THEN nextItems[1] ELSE audioSrc
       /\ audioTime' = IF shouldLoadFirst THEN 0 ELSE audioTime
       /\ trackTime' = IF shouldLoadFirst THEN 0 ELSE trackTime
       /\ canPlayPending' = (shouldLoadFirst \/ canPlayPending)
       /\ itemUrl' = UrlsOf(playlist', nextItems)
       /\ urlCount' = urlCount + n
       /\ CleanupRevokes(IF shouldReplace THEN PlaylistUrls ELSE {})
       /\ UNCHANGED <<mounted, restorePending, resumeVars, calls>>
       /\ Teardown(shouldLoadFirst \/ audioPaused,
                   IF shouldLoadFirst THEN "ready" ELSE playbackState,
                   IF shouldReplace THEN FALSE ELSE isPlaying)
       /\ PersistEffect(TRUE)

\* updatePlaylistItem(id, updates): prev.map gives a new array whether or
\* not an item has the id; titles and durations are not part of the model
UpdatePlaylistItem(id) ==
    /\ ListOp
    /\ UNCHANGED <<mounted, playlist, currentIndex, restorePending, artwork,
                   error, audioSrc, audioTime, trackTime, canPlayPending, resumeVars,
                   calls, itemUrl, urlCount>>
    /\ CleanupRevokes({})
    /\ Teardown(audioPaused, playbackState, isPlaying)
    /\ PersistEffect(TRUE)

\* updatePlaylistArtwork(id, file): likewise a new array
UpdatePlaylistArtwork(id) ==
    /\ ListOp
    /\ artwork' = IF \E i \in DOMAIN playlist : playlist[i] = id
                  THEN artwork \cup {id} ELSE artwork
    /\ UNCHANGED <<mounted, playlist, currentIndex, restorePending, error,
                   audioSrc, audioTime, trackTime, canPlayPending, resumeVars, calls,
                   itemUrl, urlCount>>
    /\ CleanupRevokes({})
    /\ Teardown(audioPaused, playbackState, isPlaying)
    /\ PersistEffect(TRUE)

\* an updater that leaves currentIndex as it is
MovedIndexStay(prev, fromIndex, toIndex) == prev

\* the setCurrentIndex updater of movePlaylistItem (lines 2625-2630)
MovedIndex(prev, fromIndex, toIndex) ==
    IF prev = fromIndex THEN toIndex
    ELSE IF fromIndex < prev /\ toIndex >= prev THEN prev - 1
    ELSE IF fromIndex > prev /\ toIndex <= prev THEN prev + 1
    ELSE prev

\* movePlaylistItem(fromIndex, toIndex)
MovePlaylistItem(fromIndex, toIndex) ==
    LET valid == /\ fromIndex >= 0 /\ fromIndex < Len(playlist)
                 /\ toIndex >= 0 /\ toIndex < Len(playlist)
        cut   == Without(playlist, {playlist[fromIndex + 1]})
        moved == SubSeq(cut, 1, toIndex) \o <<playlist[fromIndex + 1]>>
                     \o SubSeq(cut, toIndex + 1, Len(cut))
    IN /\ ListOp
       /\ fromIndex /= toIndex
       /\ playlist' = IF valid THEN moved ELSE playlist
       /\ currentIndex' = MovedIndex(currentIndex, fromIndex, toIndex)
       /\ UNCHANGED <<mounted, restorePending, artwork, error, audioSrc,
                      audioTime, trackTime, canPlayPending, resumeVars, calls,
                      itemUrl, urlCount>>
       /\ IF valid
          THEN /\ CleanupRevokes({})
               /\ Teardown(audioPaused, playbackState, isPlaying)
          ELSE UNCHANGED <<revoked, graphVars, audioPaused, playbackState, isPlaying,
                           chainVars, presetVars, hostVars, initVars,
                           exportVars, detachedVars>>
       /\ PersistEffect(valid \/ currentIndex' /= currentIndex)

\* removePlaylistItems(ids)
RemovePlaylistItems(ids) ==
    LET next          == Without(playlist, ids)
        removedBefore == Cardinality({i \in 1..Len(playlist) :
                                         i <= currentIndex /\ playlist[i] \in ids})
        nextIndex     == Clamp(currentIndex - removedBefore, 0, Len(next) - 1)
        currentGone   == /\ currentIndex + 1 \in DOMAIN playlist
                         /\ playlist[currentIndex + 1] \in ids
        reload        == next = <<>> \/ currentGone
    IN /\ ListOp
       /\ ids /= {}
       /\ playlist' = next
       /\ artwork' = artwork \ ids
       /\ currentIndex' = IF next = <<>> THEN 0 ELSE nextIndex
       /\ audioSrc' = IF next = <<>> THEN 0
                      ELSE IF currentGone THEN next[nextIndex + 1]
                      ELSE audioSrc
       /\ audioTime' = IF reload THEN 0 ELSE audioTime
       /\ trackTime' = IF reload THEN 0 ELSE trackTime
       /\ canPlayPending' = IF next = <<>> THEN FALSE
                            ELSE (currentGone \/ canPlayPending)
       /\ itemUrl' = UrlsOf(next, <<>>)
       /\ CleanupRevokes({itemUrl[id] : id \in DOMAIN itemUrl \cap ids})
       /\ UNCHANGED <<mounted, restorePending, error, resumeVars, calls,
                      urlCount>>
       /\ Teardown(audioPaused,
                   IF ~reload THEN playbackState
                   ELSE IF ~audioPaused THEN "paused"
                   ELSE IF next = <<>> THEN "idle" ELSE "ready",
                   IF reload THEN FALSE ELSE isPlaying)
       /\ PersistEffect(TRUE)

\* loadStoredPlaylist() of the mount effect settles with the items of
\* order and the index storedIndex (lines 2165-2202)
RestoreItems(order, storedIndex) ==
    /\ restorePending
    /\ restorePending' = FALSE
    /\ IF mounted /\ order /= <<>>
       THEN /\ playlist' = order
            /\ currentIndex' = Clamp(storedIndex, 0, Max2(Len(order) - 1, 0))
            /\ audioSrc' = playlist'[currentIndex' + 1]
            /\ audioTime' = 0
            /\ trackTime' = 0
            /\ canPlayPending' = TRUE
            /\ itemUrl' = UrlsOf(playlist', playlist')
            /\ urlCount' = urlCount + Len(order)
            /\ CleanupRevokes({})
            /\ UNCHANGED <<mounted, artwork, listOps, error, resumeVars, calls>>
            /\ Teardown(TRUE, "ready", isPlaying)
            /\ PersistEffect(TRUE)
       ELSE UNCHANGED <<mounted, playlist, currentIndex, artwork, listOps,
                        urlVars, storeVars, playVars, graphVars,
                        chainVars, presetVars, hostVars, initVars, exportVars,
                        detachedVars, calls>>

\* the same for a database that holds n items and the index 0
RestorePlaylist(n) ==
    RestoreItems(IF n = 0 THEN <<>> ELSE NewItems(<<>>, n), 0)

\* the "timeupdate" listener onTime, after the element's position became
\* audioTime': it leaves the shown position alone during a drag
OnTimeAlways == trackTime' = audioTime'

OnTime == trackTime' = IF isDragging THEN trackTime ELSE audioTime'

\* the "canplay" listener onLoaded: it calls onTime() and, when the current
\* item exists, updatePlaylistItem with the duration
CanPlay ==
    /\ mounted
    /\ canPlayPending
    /\ canPlayPending' = FALSE
    /\ UNCHANGED <<mounted, playlist, currentIndex, restorePending, artwork,
                   listOps, itemUrl, urlCount, error, audioSrc, audioTime,
                   resumeVars, calls>>
    /\ OnTime
    /\ IF currentIndex + 1 \in DOMAIN playlist
       THEN /\ CleanupRevokes({})
            /\ Teardown(audioPaused,
                        IF audioPaused THEN "ready" ELSE "playing",
                        isPlaying)
            /\ PersistEffect(TRUE)
       ELSE /\ playbackState' = IF audioPaused THEN "ready" ELSE "playing"
            /\ UNCHANGED <<storeVars, revoked, graphVars, audioPaused, isPlaying, chainVars,
                           presetVars, hostVars, initVars, exportVars,
                           detachedVars>>

\* the engine instance is unmounted
Unmount ==
    /\ mounted
    /\ mounted' = FALSE
    /\ UNCHANGED <<playlist, currentIndex, restorePending, artwork, listOps,
                   error, audioSrc, audioTime, trackTime, canPlayPending, resumeVars,
                   calls, itemUrl, urlCount>>
    /\ CleanupRevokes({})
    /\ Teardown(audioPaused, playbackState, isPlaying)
    /\ PersistEffect(TRUE)

\* numbers of files a caller adds at once, and the modes
FileCounts == {1, 2}

Modes == {"replace", "append"}

\* playlist positions callers name, the last one out of range
Positions == {0, 1, 9}

\* ids callers name
ItemIds == {1, 2}

RemoveSets == {{1}, {1, 2}}

LifecycleNext ==
    \/ \E c \in InitCalls : InitAudio(c)
    \/ \E n \in FileCounts, mode \in Modes : AddFilesToPlaylist(n, mode)
    \/ \E id \in ItemIds : UpdatePlaylistItem(id)
    \/ \E id \in ItemIds : UpdatePlaylistArtwork(id)
    \/ \E from \in Positions, to \in Positions : MovePlaylistItem(from, to)
    \/ \E ids \in RemoveSets : RemovePlaylistItems(ids)
    \/ \E n \in {0, 1} : RestorePlaylist(n)
    \/ CanPlay
    \/ Unmount

LifecycleSpec == Init /\ [][LifecycleNext]_vars

----------------------------------------------------------------------------
(* Playback: useAudioEngine.ts, lines 2416-2475, 2571-2588, 3543-3559,     *)
(* 3694-3743.  The audio element's clock counts ticks of a track that is   *)
(* TrackLength ticks long; its "play", "pause" and "ended" events are      *)
(* delivered within the step that causes them.  playOk is whether the      *)
(* promise of audioEl.play() resolves.                                     *)

\* the length of every track, in ticks of the element's clock
TrackLength == 2

\* everything playback and export leave alone
outsidePlayback == <<chainVars, presetVars, graphVars, hostVars, initVars,
                     detachedVars>>

\* the position play() starts from: an element at its end seeks back to 0
PlayFrom(t) == IF t >= TrackLength THEN 0 ELSE t

\* the state writes of loadTrackAt(index, {autoplay}) for an index that
\* holds an item
LoadTrack(index, autoplay, playOk) ==
    /\ error' = IF autoplay /\ ~playOk THEN "playback" ELSE "none"
    /\ currentIndex' = index
    /\ audioSrc' = playlist[index + 1]
    /\ audioTime' = 0
    /\ trackTime' = 0
    /\ canPlayPending' = TRUE
    /\ audioPaused' = ~(autoplay /\ playOk)
    /\ isPlaying' = (autoplay /\ playOk)
    /\ playbackState' = IF ~autoplay THEN "ready"
                        ELSE IF playOk THEN "playing" ELSE "error"

\* loadTrackAt(index, {autoplay}) called by the host
LoadTrackAt(index, autoplay, playOk) ==
    /\ Call
    /\ index + 1 \in DOMAIN playlist
    /\ LoadTrack(index, autoplay, playOk)
    /\ UNCHANGED <<mounted, playlist, restorePending, artwork, listOps,
                   urlVars, resumeVars, exportVars, outsidePlayback>>
    /\ PersistEffect(currentIndex' /= currentIndex)

\* togglePlay()
TogglePlay(playOk) ==
    /\ Call
    /\ audioSrc /= 0
    /\ playbackState /= "initializing"
    /\ IF ~audioPaused
       THEN /\ audioPaused' = TRUE
            /\ isPlaying' = FALSE
            /\ playbackState' = "paused"
            /\ UNCHANGED <<audioTime, trackTime, error>>
       ELSE IF playOk
       THEN /\ audioPaused' = FALSE
            /\ audioTime' = PlayFrom(audioTime)
            /\ OnTime
            /\ isPlaying' = TRUE
            /\ playbackState' = "playing"
            /\ UNCHANGED error
       ELSE /\ error' = "playback"
            /\ UNCHANGED <<audioPaused, audioTime, trackTime, isPlaying, playbackState>>
    /\ UNCHANGED <<audioSrc, canPlayPending, resumeVars, listVars,
                   exportVars, outsidePlayback>>

\* pauseForBackground: the page is hidden while the element plays (with
\* the element paused it changes nothing)
PageHidden ==
    /\ Alive
    /\ ~audioPaused
    /\ lastWasPlaying' = TRUE
    /\ audioPaused' = TRUE
    /\ isPlaying' = FALSE
    /\ playbackState' = "paused"
    /\ UNCHANGED <<audioSrc, audioTime, trackTime, canPlayPending, error, listVars,
                   exportVars, calls, outsidePlayback, cycle>>

\* resumeFromBackground: the page is shown again
PageShown(playOk) ==
    /\ Call
    /\ lastWasPlaying
    /\ lastWasPlaying' = FALSE
    /\ IF ~playOk \/ audioSrc = 0
       THEN /\ error' = "playback"
            /\ UNCHANGED <<audioPaused, audioTime, trackTime, isPlaying, playbackState>>
       ELSE IF audioPaused
       THEN /\ audioPaused' = FALSE
            /\ audioTime' = PlayFrom(audioTime)
            /\ OnTime
            /\ isPlaying' = TRUE
            /\ playbackState' = "playing"
            /\ UNCHANGED error
       ELSE UNCHANGED <<audioPaused, audioTime, trackTime, isPlaying, playbackState,
                        error>>
    /\ UNCHANGED <<audioSrc, canPlayPending, listVars, exportVars,
                   outsidePlayback, cycle>>

\* what the cycle record compares: the element plays, the track, the position
Playback == <<~audioPaused, currentIndex, audioTime>>

\* pauseForBackground (lines 3702-3710), called on "pagehide" and on
\* "visibilitychange" with the document hidden; the first of them starts
\* the cycle
PauseForBackground ==
    /\ Alive
    /\ IF ~audioPaused
       THEN /\ lastWasPlaying' = TRUE
            /\ audioPaused' = TRUE
            /\ isPlaying' = FALSE
            /\ playbackState' = "paused"
       ELSE UNCHANGED <<lastWasPlaying, audioPaused, isPlaying, playbackState>>
    /\ cycle' = IF cycle.phase = "hidden" THEN cycle
                ELSE [phase |-> "hidden", before |-> Playback, after |-> Playback,
                      ops |-> <<calls, listOps>>, plays |-> 0]
    /\ UNCHANGED <<audioSrc, audioTime, trackTime, canPlayPending, error, listVars,
                   exportVars, calls, outsidePlayback>>

\* the most play() requests a cycle counts
MaxPlays == 2

\* resumeFromBackground (lines 3712-3721), called on "visibilitychange"
\* with the document visible, on "pageshow" and on "focus"; play() rejects
\* on an element without a source or when the browser refuses it
ResumeFromBackground(playOk) ==
    /\ Alive
    /\ lastWasPlaying' = FALSE
    /\ IF ~lastWasPlaying
       THEN UNCHANGED <<audioPaused, audioTime, trackTime, isPlaying, playbackState, error>>
       ELSE IF ~playOk \/ audioSrc = 0
       THEN /\ error' = "playback"
            /\ UNCHANGED <<audioPaused, audioTime, trackTime, isPlaying, playbackState>>
       ELSE IF audioPaused
       THEN /\ audioPaused' = FALSE
            /\ audioTime' = PlayFrom(audioTime)
            /\ OnTime
            /\ isPlaying' = TRUE
            /\ playbackState' = "playing"
            /\ UNCHANGED error
       ELSE UNCHANGED <<audioPaused, audioTime, trackTime, isPlaying, playbackState,
                        error>>
    /\ cycle' =
          IF cycle.phase = "none" THEN cycle
          ELSE [cycle EXCEPT
                  !.phase = "shown",
                  !.after = IF cycle.phase = "hidden"
                            THEN <<~audioPaused', currentIndex, audioTime'>>
                            ELSE @,
                  !.plays = IF lastWasPlaying THEN Min2(@ + 1, MaxPlays) ELSE @]
    /\ UNCHANGED <<audioSrc, canPlayPending, listVars, exportVars, calls,
                   outsidePlayback>>

\* the element plays one tick of the track
AudioTick ==
    /\ ~audioPaused
    /\ audioSrc /= 0
    /\ audioTime + 1 < TrackLength
    /\ audioTime' = audioTime + 1
    /\ OnTime
    /\ UNCHANGED <<audioSrc, audioPaused, canPlayPending, resumeVars,
                   playbackState, isPlaying, error, listVars, exportVars,
                   calls, outsidePlayback>>

----------------------------------------------------------------------------
(* Loudness normalization: useAudioEngine.ts, lines 1552, 1726-1752.       *)
(* Rendered samples are in hundredths, normalized samples in               *)
(* ten-thousandths, loudness in tenths of a dB.                            *)

\* round(1000 * 10^(r / 200)) for r = 0..199, at index r + 1: the fraction
\* of a decade in steps of a tenth of a dB of gain
Pow10Frac ==
    <<
      1000, 1012, 1023, 1035, 1047, 1059, 1072, 1084, 1096, 1109,
      1122, 1135, 1148, 1161, 1175, 1189, 1202, 1216, 1230, 1245,
      1259, 1274, 1288, 1303, 1318, 1334, 1349, 1365, 1380, 1396,
      1413, 1429, 1445, 1462, 1479, 1496, 1514, 1531, 1549, 1567,
      1585, 1603, 1622, 1641, 1660, 1679, 1698, 1718, 1738, 1758,
      1778, 1799, 1820, 1841, 1862, 1884, 1905, 1928, 1950, 1972,
      1995, 2018, 2042, 2065, 2089, 2113, 2138, 2163, 2188, 2213,
      2239, 2265, 2291, 2317, 2344, 2371, 2399, 2427, 2455, 2483,
      2512, 2541, 2570, 2600, 2630, 2661, 2692, 2723, 2754, 2786,
      2818, 2851, 2884, 2917, 2951, 2985, 3020, 3055, 3090, 3126,
      3162, 3199, 3236, 3273, 3311, 3350, 3388, 3428, 3467, 3508,
      3548, 3589, 3631, 3673, 3715, 3758, 3802, 3846, 3890, 3936,
      3981, 4027, 4074, 4121, 4169, 4217, 4266, 4315, 4365, 4416,
      4467, 4519, 4571, 4624, 4677, 4732, 4786, 4842, 4898, 4955,
      5012, 5070, 5129, 5188, 5248, 5309, 5370, 5433, 5495, 5559,
      5623, 5689, 5754, 5821, 5888, 5957, 6026, 6095, 6166, 6237,
      6310, 6383, 6457, 6531, 6607, 6683, 6761, 6839, 6918, 6998,
      7079, 7161, 7244, 7328, 7413, 7499, 7586, 7674, 7762, 7852,
      7943, 8035, 8128, 8222, 8318, 8414, 8511, 8610, 8710, 8810,
      8913, 9016, 9120, 9226, 9333, 9441, 9550, 9661, 9772, 9886
    >>

\* the largest gain the model keeps, in thousandths (60 dB): at the sample
\* resolution any gain above it clamps every nonzero sample as it does
GainCap == 1000000

\* dbToGain(db) = Math.pow(10, db / 20) at any db in tenths, in thousandths
RECURSIVE ScaleByDecades(_, _)
ScaleByDecades(g, q) ==
    IF q = 0 THEN g
    ELSE IF q > 0 THEN ScaleByDecades(g * 10, q - 1)
    ELSE ScaleByDecades(g \div 10, q + 1)

DbToGainFine(db) ==
    IF db >= 600 THEN GainCap
    ELSE IF db <= -1200 THEN 0
    ELSE ScaleByDecades(Pow10Frac[(db % 200) + 1], db \div 200)

\* num / den brought into [1, 10) by powers of ten: the decade and the
\* scaled pair
RECURSIVE Decade(_, _)
Decade(num, den) ==
    IF num >= den * 10
    THEN LET r == Decade(num, den * 10) IN [r EXCEPT !.d = r.d + 1]
    ELSE IF num < den
    THEN LET r == Decade(num * 10, den) IN [r EXCEPT !.d = r.d - 1]
    ELSE [d |-> 0, num |-> num, den |-> den]

RECURSIVE Shrink(_)
Shrink(r) ==
    IF r.num > 2000000
    THEN Shrink([r EXCEPT !.num = r.num \div 10, !.den = r.den \div 10])
    ELSE r

\* floor(100 * Math.log10(num / den)) for num, den > 0
Log10Hundredths(num, den) ==
    LET r  == Shrink(Decade(num, den))
        m  == (r.num * 1000) \div r.den
        js == {j \in 0..99 : Pow10Frac[2 * j + 1] <= m}
    IN 100 * r.d + (CHOOSE j \in js : \A k \in js : k <= j)

\* the sum of the squares of every sample of every channel
RECURSIVE SumSquares(_)
SumSquares(buffer) ==
    IF buffer = <<>> THEN 0
    ELSE LET frame == Head(buffer)
             RECURSIVE FrameSum(_)
             FrameSum(ch) == IF ch = 0 THEN 0
                             ELSE frame[ch] * frame[ch] + FrameSum(ch - 1)
         IN FrameSum(Len(frame)) + SumSquares(Tail(buffer))

\* calcIntegratedLufs(buffer) for samples of size 10^-digits: -0.691 +
\* 10 * log10(mean square), or -120 for an empty or silent buffer
CalcIntegratedLufs(buffer, digits) ==
    IF buffer = <<>> \/ Len(buffer[1]) = 0 THEN -1200
    ELSE LET total == SumSquares(buffer)
             den   == Len(buffer) * Len(buffer[1])
         IN IF total <= 0 THEN -1200
            ELSE -7 + Log10Hundredths(total, den) - 200 * digits

\* applyGainToBuffer(buffer, gain) without its clamp
ApplyGainNoClamp(buffer, gain) ==
    [i \in DOMAIN buffer |->
        [ch \in DOMAIN buffer[i] |-> MulDiv(buffer[i][ch], gain, 10)]]

\* applyGainToBuffer(buffer, gain): every sample times gain, clamped to
\* [-1, 1]
ApplyGainToBuffer(buffer, gain) ==
    [i \in DOMAIN buffer |->
        [ch \in DOMAIN buffer[i] |->
            Clamp(MulDiv(buffer[i][ch], gain, 10), -10000, 10000)]]

----------------------------------------------------------------------------
(* The offline render: useAudioEngine.ts, lines 2995-3143, against the     *)
(* live graph of initAudio, lines 3391-3451.  The browser's own nodes      *)
(* (filters, compressor, shaper, stereo matrix, panner) are not part of    *)
(* the repository: the render is followed from the signal they hand to the *)
(* limiter worklet, through the worklet and the output gain, to the        *)
(* normalization.                                                          *)

\* the processing stages from source to destination, by the connect() calls
LiveStages ==
    <<"sub", "low", "mid", "high", "air", "compressor", "makeup",
      "saturation", "stereo", "pan", "limiter", "meter", "outputGain">>

OfflineStages ==
    <<"sub", "low", "mid", "high", "air", "compressor", "makeup",
      "saturation", "stereo", "pan", "limiter", "outputGain">>

\* type, frequency in Hz and Q in tenths (0 where Q is left at its default)
\* of the five band filters
LiveBands ==
    [sub  |-> [type |-> "lowshelf",  frequency |-> 80,    Q |-> 0],
     low  |-> [type |-> "peaking",   frequency |-> 250,   Q |-> 9],
     mid  |-> [type |-> "peaking",   frequency |-> 1000,  Q |-> 10],
     high |-> [type |-> "peaking",   frequency |-> 4000,  Q |-> 11],
     air  |-> [type |-> "highshelf", frequency |-> 12000, Q |-> 0]]

OfflineBands ==
    [sub  |-> [type |-> "lowshelf",  frequency |-> 80,    Q |-> 0],
     low  |-> [type |-> "peaking",   frequency |-> 250,   Q |-> 9],
     mid  |-> [type |-> "peaking",   frequency |-> 1000,  Q |-> 10],
     high |-> [type |-> "peaking",   frequency |-> 4000,  Q |-> 11],
     air  |-> [type |-> "highshelf", frequency |-> 12000, Q |-> 0]]

\* the parameter values exportOfflineWav gives the nodes of its graph, for
\* the state st of the render that created the callback
OfflineGraph(st) ==
    LET c     == st.compressor
        mix   == IF st.saturation.bypass THEN 0
                 ELSE Clamp(st.saturation.mix, 0, 100)
        width == IF st.stereo.bypass THEN 100
                 ELSE IF st.stereo.mono THEN 0
                 ELSE Clamp(st.stereo.width, 0, 200)
        trim  == IF st.output.bypass THEN 0 ELSE st.output.trim
    IN [eq     |-> st.eq,
        comp   |-> [threshold |-> IF c.bypass THEN 0 ELSE c.threshold,
                    ratio     |-> IF c.bypass THEN 1 ELSE c.ratio,
                    attack    |-> c.attack,
                    release   |-> c.release],
        makeup |-> DbToGain(IF c.bypass THEN 0 ELSE c.makeup),
        sat    |-> [curve |-> Clamp(st.saturation.drive, 0, 100),
                    dry |-> 100 - mix, wet |-> mix],
        stereo |-> [ll |-> (100 + width) \div 2, rr |-> (100 + width) \div 2,
                    lr |-> (100 - width) \div 2, rl |-> (100 - width) \div 2,
                    pan |-> IF st.stereo.bypass THEN 0
                            ELSE Clamp(st.stereo.pan, -100, 100)],
        lim    |-> [threshold |-> Clamp(st.limiter.threshold, -240, 0),
                    ceiling   |-> Clamp(st.limiter.ceiling, -60, 0),
                    release   |-> Clamp(st.limiter.release, 10, 1000),
                    softClip  |-> IF st.limiter.softClip THEN 1 ELSE 0,
                    bypass    |-> IF st.limiter.bypass THEN 1 ELSE 0],
        out    |-> (st.volume * DbToGain(trim)) \div 100]

\* the values the live nodes hold for st once every effect has run
LiveGraph(st) ==
    EffectsRun(NodeDefaults(st.eq), NodeRefs,
               {"eq", "output", "compressor", "saturation", "stereo",
                "limiter"}, st)

\* startRendering(): the signal at the limiter's input goes through a new
\* limiter node (envelope 1) and the output gain; samples in hundredths
RenderBuffer(signal, graph) ==
    LET limited == LimiterRun(signal, 100, graph.lim).out
    IN [i \in DOMAIN limited |->
           [ch \in DOMAIN limited[i] |-> MulDiv(limited[i][ch], graph.out, 100)]]

\* the samples handed to audioBufferToWav, in ten-thousandths
OfflineSamples(signal, st, normalize, target) ==
    LET buffer == RenderBuffer(signal, OfflineGraph(st))
    IN IF normalize
       THEN ApplyGainToBuffer(buffer,
                DbToGainFine(target - CalcIntegratedLufs(buffer, 2)))
       ELSE [i \in DOMAIN buffer |->
                [ch \in DOMAIN buffer[i] |-> buffer[i][ch] * 100]]

----------------------------------------------------------------------------
(* Export: useAudioEngine.ts, lines 3170-3248.  exportPc is the position   *)
(* of the one startExport call in flight; error "export" is the message    *)
(* "Export failed: ..." and download is the file handed to the browser.    *)

\* startExport's finally block, after the outcome err and file
ExportDone(err, file) ==
    /\ isExporting' = FALSE
    /\ exportPc' = "done"
    /\ error' = IF err THEN "export" ELSE error
    /\ download' = file

\* startExport() up to its await of exportOfflineWav()
StartExport ==
    /\ Call
    /\ exportPc \in {"idle", "done"}
    /\ IF audioSrc = 0
       THEN /\ error' = "noaudio"
            /\ UNCHANGED exportVars
       ELSE /\ isExporting' = TRUE
            /\ error' = "none"
            /\ exportPc' = "offline"
            /\ exportOffline' = "none"
            /\ fallbackRan' = FALSE
            /\ download' = "none"
            /\ exportSnap' = [index |-> currentIndex, time |-> audioTime,
                              paused |-> audioPaused, calls |-> calls',
                              listOps |-> listOps,
                              restorePending |-> restorePending]
            /\ render' = [phase |-> "building", st |-> Chain,
                          normalize |-> normalizeLoudness,
                          target |-> targetLufs]
            /\ UNCHANGED <<recState, endedHook, overlapPc,
                           normalizeLoudness, targetLufs>>
    /\ UNCHANGED <<playbackState, isPlaying, mediaVars, listVars,
                   outsidePlayback>>

\* exportOfflineWav() settles: rendered is whether fetch, decode and the
\* offline render all succeed, on the signal the decoded track gives at the
\* limiter's input; when it throws, exportViaRecorder() runs up to its
\* await of the recording
ExportOfflineSettled(rendered, playOk, signal) ==
    LET ok == rendered /\ currentIndex + 1 \in DOMAIN playlist
    IN /\ exportPc = "offline"
       /\ exportOffline' = IF ok THEN "ok" ELSE "failed"
       /\ fallbackRan' = ~ok
       /\ render' = IF ok
                    THEN [phase |-> "done", st |-> render.st,
                          normalize |-> render.normalize,
                          target |-> render.target,
                          signal |-> signal,
                          graph |-> OfflineGraph(render.st),
                          samples |-> OfflineSamples(signal, render.st,
                                         render.normalize, render.target)]
                    ELSE render
       /\ UNCHANGED <<exportSnap, overlapPc, normalizeLoudness, targetLufs,
                      audioSrc,
                      canPlayPending, resumeVars, listVars, calls,
                      outsidePlayback>>
       /\ IF ok
          THEN /\ ExportDone(FALSE, "wav")
               /\ UNCHANGED <<recState, endedHook, audioTime, trackTime, audioPaused,
                              isPlaying, playbackState>>
          ELSE IF "recorder" \notin refs \/ audioSrc = 0
          THEN /\ ExportDone(TRUE, "none")
               /\ UNCHANGED <<recState, endedHook, audioTime, trackTime, audioPaused,
                              isPlaying, playbackState>>
          ELSE IF recState = "recording"
          THEN /\ ExportDone(FALSE, "none")
               /\ UNCHANGED <<recState, endedHook, audioTime, trackTime, audioPaused,
                              isPlaying, playbackState>>
          ELSE /\ recState' = "recording"
               /\ audioTime' = 0
               /\ OnTime
               /\ IF playOk
                  THEN /\ endedHook' = TRUE
                       /\ audioPaused' = FALSE
                       /\ isPlaying' = TRUE
                       /\ playbackState' = "playing"
                       /\ exportPc' = "recording"
                       /\ UNCHANGED <<isExporting, error, download>>
                  ELSE /\ endedHook' = FALSE
                       /\ ExportDone(TRUE, "none")
                       /\ UNCHANGED <<audioPaused, isPlaying, playbackState>>

\* the element reaches the end of the track: it pauses and delivers
\* "pause" and "ended" to onPause, onEnded and, while a recording export
\* waits, to exportViaRecorder's handleEnded, whose rec.stop() leads to
\* rec.onstop
AudioEnded(playOk) ==
    LET advance == Len(playlist) > 1 /\ currentIndex < Len(playlist) - 1
        stops   == endedHook /\ recState = "recording"
    IN /\ ~audioPaused
       /\ audioSrc /= 0
       /\ audioTime + 1 >= TrackLength
       /\ IF advance
          THEN LoadTrack(currentIndex + 1, TRUE, playOk)
          ELSE /\ audioTime' = TrackLength
               /\ OnTime
               /\ audioPaused' = TRUE
               /\ isPlaying' = FALSE
               /\ playbackState' = "paused"
               /\ UNCHANGED <<error, currentIndex, audioSrc, canPlayPending>>
       /\ endedHook' = FALSE
       /\ IF stops
          THEN /\ recState' = "inactive"
               /\ isExporting' = FALSE
               /\ exportPc' = "done"
               /\ download' = "webm"
          ELSE UNCHANGED <<recState, isExporting, exportPc, download>>
       /\ UNCHANGED <<exportOffline, fallbackRan, exportSnap, overlapPc,
                      renderVars,
                      mounted, playlist, restorePending, artwork, listOps,
                      urlVars, resumeVars, calls, outsidePlayback>>
       /\ PersistEffect(currentIndex' /= currentIndex)

\* the recorder reports an error while a recording export waits: rec.onerror
RecorderError ==
    /\ exportPc = "recording"
    /\ recState = "recording"
    /\ recState' = "inactive"
    /\ endedHook' = FALSE
    /\ ExportDone(TRUE, "none")
    /\ UNCHANGED <<exportOffline, fallbackRan, exportSnap, overlapPc,
                   renderVars,
                   playbackState, isPlaying, mediaVars, listVars, calls,
                   outsidePlayback>>

\* positions and options the host loads
LoadPositions == {0, 1}

\* the signal of the track exported while playback is followed: two mono
\* frames at half scale
ExportSignals == {<<<<50>>, <<-50>>>>}

ExportNext ==
    \/ InitAudio(1)
    \/ \E n \in FileCounts, mode \in Modes : AddFilesToPlaylist(n, mode)
    \/ \E ids \in RemoveSets : RemovePlaylistItems(ids)
    \/ CanPlay
    \/ \E i \in LoadPositions, autoplay \in BOOLEAN, playOk \in BOOLEAN :
           LoadTrackAt(i, autoplay, playOk)
    \/ \E playOk \in BOOLEAN : TogglePlay(playOk)
    \/ PageHidden
    \/ \E playOk \in BOOLEAN : PageShown(playOk)
    \/ AudioTick
    \/ \E playOk \in BOOLEAN : AudioEnded(playOk)
    \/ StartExport
    \/ \E rendered \in BOOLEAN, playOk \in BOOLEAN, signal \in ExportSignals :
           ExportOfflineSettled(rendered, playOk, signal)
    \/ RecorderError

ExportSpec == Init /\ [][ExportNext]_vars

\* the platform's own steps happen if they stay possible: module loads and
\* the rest of initAudio settle, "canplay" is delivered, the element's clock
\* runs while it plays, and the offline render settles
ExportFairness ==
    /\ WF_vars(\E ok \in BOOLEAN : InitMeterLoaded(1, ok))
    /\ WF_vars(\E ok \in BOOLEAN : InitLimiterLoaded(1, ok))
    /\ WF_vars(InitFinish(1))
    /\ WF_vars(CanPlay)
    /\ WF_vars(AudioTick)
    /\ WF_vars(\E playOk \in BOOLEAN : AudioEnded(playOk))
    /\ WF_vars(\E rendered \in BOOLEAN, playOk \in BOOLEAN,
                      signal \in ExportSignals :
                   ExportOfflineSettled(rendered, playOk, signal))

ExportFairSpec == Init /\ [][ExportNext]_vars /\ ExportFairness

----------------------------------------------------------------------------
(* Exports that render offline, under changes of the chain and of the      *)
(* export options.                                                         *)

\* setNormalizeLoudness(on); the two export options take few values and are
\* not counted as calls
SetNormalizeLoudness(on) ==
    /\ Alive
    /\ on /= normalizeLoudness
    /\ normalizeLoudness' = on
    /\ UNCHANGED <<targetLufs, render, isExporting, exportPc, exportOffline,
                   fallbackRan, download, recState, endedHook, exportSnap,
                   overlapPc,
                   playVars, listVars, calls, outsidePlayback>>

\* setTargetLufs(target)
SetTargetLufs(target) ==
    /\ Alive
    /\ target /= targetLufs
    /\ targetLufs' = target
    /\ UNCHANGED <<normalizeLoudness, render, isExporting, exportPc,
                   exportOffline, fallbackRan, download, recState, endedHook,
                   exportSnap, overlapPc, playVars, listVars, calls,
                   outsidePlayback>>

\* targets of the range input of Home.tsx (-20 to -6 LUFS)
Targets == {-140, -60}

\* signals at the limiter's input: silence, a steady quiet tone, and a
\* stereo track with one loud frame in four
RenderSignals ==
    {<<<<0>>, <<0>>>>,
     <<<<10>>, <<-10>>, <<10>>, <<-10>>>>,
     <<<<90, -90>>, <<0, 0>>, <<0, 0>>, <<0, 0>>>>}

\* chain writes made before an export
RenderCompressorWrites == {<<"bypass", TRUE>>}

RenderLimiterWrites == {<<"softClip", FALSE>>, <<"bypass", TRUE>>}

RenderOutputWrites == {<<"trim", 60>>, <<"bypass", TRUE>>}

RenderNext ==
    \/ \E n \in FileCounts, mode \in Modes : AddFilesToPlaylist(n, mode)
    \/ \E w \in RenderCompressorWrites : SetCompressor(w[1], w[2])
    \/ \E w \in RenderLimiterWrites : SetLimiter(w[1], w[2])
    \/ \E w \in RenderOutputWrites : SetOutput(w[1], w[2])
    \/ \E v \in Volumes : HandleVolumeChange(v)
    \/ ToggleMute
    \/ \E on \in BOOLEAN : SetNormalizeLoudness(on)
    \/ \E target \in Targets : SetTargetLufs(target)
    \/ StartExport
    \/ \E rendered \in BOOLEAN, playOk \in BOOLEAN, signal \in RenderSignals :
           ExportOfflineSettled(rendered, playOk, signal)

RenderSpec == Init /\ [][RenderNext]_vars

----------------------------------------------------------------------------
(* Meter worklet: src/unnamed/part_001, lines 1-113.                       *)
(*                                                                         *)
(* A sample is a whole number of eighths (8 = 1.0).  Mean squares and the  *)
(* running sums are in halves of a squared eighth, so that a frame's mean  *)
(* square over one or two channels is a whole number.  Doubles are exact.  *)
(* A Float32Array element keeps FloatBits significant bits (24 in the      *)
(* browser), rounding to nearest, ties to even.  Loudness is in tenths of  *)
(* a dB, correlation in hundredths.                                        *)

\* significant bits of a Float32Array element
FloatBits == 3

RECURSIVE Pow2(_)
Pow2(n) == IF n = 0 THEN 1 ELSE 2 * Pow2(n - 1)

\* storing the double x >= 0 in a Float32Array and reading it back
Fround(x) ==
    IF x < Pow2(FloatBits) THEN x
    ELSE LET e    == CHOOSE k \in 1..40 :
                        x < Pow2(FloatBits + k) /\ x >= Pow2(FloatBits + k - 1)
             q    == x \div Pow2(e)
             rem  == x % Pow2(e)
             half == Pow2(e - 1)
             up   == rem > half \/ (rem = half /\ q % 2 = 1)
         IN (IF up THEN q + 1 ELSE q) * Pow2(e)

\* _calcLufs(ms) for ms = num / den halves of a squared eighth (lines 25-28)
CalcLufs(num, den) ==
    IF num <= 0 THEN -1200
    ELSE -7 + Log10Hundredths(num, den * 128)

\* frameSum of frame i (lines 50-57)
RECURSIVE MeterFrameSum(_)
MeterFrameSum(frame) ==
    IF frame = <<>> THEN 0
    ELSE Head(frame) * Head(frame) + MeterFrameSum(Tail(frame))

\* the body of the sample loop for one frame (lines 59-73)
MeterFrame(p, frame) ==
    LET frameMs == (MeterFrameSum(frame) * 2) \div Len(frame)
        mi      == p.momentaryIndex + 1
        si      == p.shortIndex + 1
    IN [p EXCEPT
          !.momentarySum    = (@ - p.momentaryBuffer[mi]) + frameMs,
          !.momentaryBuffer = [@ EXCEPT ![mi] = Fround(frameMs)],
          !.momentaryIndex  = (@ + 1) % p.momentaryWindow,
          !.shortSum        = (@ - p.shortBuffer[si]) + frameMs,
          !.shortBuffer     = [@ EXCEPT ![si] = Fround(frameMs)],
          !.shortIndex      = (@ + 1) % p.shortWindow,
          !.integratedSum   = @ + frameMs,
          !.integratedCount = @ + 1]

RECURSIVE MeterFrames(_, _)
MeterFrames(p, block) ==
    IF block = <<>> THEN p
    ELSE MeterFrames(MeterFrame(p, Head(block)), Tail(block))

\* sumL, sumLL and sumRR over frames (lines 75-82): the sums of l * r,
\* l * l and r * r of the frames that have two channels
RECURSIVE SumLR(_)
SumLR(frames) ==
    IF frames = <<>> THEN [lr |-> 0, ll |-> 0, rr |-> 0]
    ELSE LET f    == Head(frames)
             rest == SumLR(Tail(frames))
         IN IF Len(f) > 1
            THEN [lr |-> rest.lr + f[1] * f[2],
                  ll |-> rest.ll + f[1] * f[1],
                  rr |-> rest.rr + f[2] * f[2]]
            ELSE rest

\* sumL / Math.sqrt(sumLL * sumRR), read to the hundredth (rounded towards
\* zero; values beyond 1.2 read 1.2); 0 / 0 is NaN
Quotient(s) ==
    LET fits(c) == c * c * s.ll * s.rr <= 10000 * s.lr * s.lr
        c       == CHOOSE k \in 0..120 :
                      fits(k) /\ (k < 120 => ~fits(k + 1))
    IN IF s.ll * s.rr = 0 THEN NaN ELSE Sign(s.lr) * c

\* the correlation of a report without the test for silent channels
CorrelationUnguarded(channels, s) == Quotient(s)

\* correlation (lines 94-97)
Correlation(channels, s) ==
    IF channels > 1 /\ s.ll > 0 /\ s.rr > 0 THEN Quotient(s) ELSE 0

\* the report test with > for >=
ReportDueLate(p) == 20 * (p.frameCounter - p.lastReport) > p.sampleRate

\* this._frameCounter - this._lastReport >= this._sampleRate * 0.05
ReportDue(p) == 20 * (p.frameCounter - p.lastReport) >= p.sampleRate

\* the frames of a sequence of blocks
RECURSIVE FramesOf(_)
FramesOf(blocks) ==
    IF blocks = <<>> THEN <<>> ELSE Head(blocks) \o FramesOf(Tail(blocks))

\* the message of lines 99-106
MeterMessageOf(p, block) ==
    LET integratedMs == IF p.integratedCount > 0
                        THEN <<p.integratedSum, p.integratedCount>>
                        ELSE <<0, 1>>
    IN [momentaryMs    |-> <<p.momentarySum, p.momentaryWindow>>,
        shortMs        |-> <<p.shortSum, p.shortWindow>>,
        integratedMs   |-> integratedMs,
        lufsMomentary  |-> CalcLufs(p.momentarySum, p.momentaryWindow),
        lufsShort      |-> CalcLufs(p.shortSum, p.shortWindow),
        lufsIntegrated |-> CalcLufs(integratedMs[1], integratedMs[2]),
        correlation    |-> Correlation(Len(block[1]), SumLR(block))]

\* MeterProcessor.process(inputs, outputs, parameters) on the block
\* inputs[0], a sequence of frames; the empty block is an input without
\* channels (lines 35-37)
MeterProcess(block) ==
    /\ meterHist' = Append(meterHist, block)
    /\ IF block = <<>>
       THEN UNCHANGED <<meterProc, meterPost>>
       ELSE LET p == [MeterFrames(meterProc, block) EXCEPT
                        !.frameCounter = @ + Len(block)]
            IN IF ReportDue(p)
               THEN /\ meterProc' = [p EXCEPT !.lastReport = p.frameCounter]
                    /\ meterPost' = [n       |-> meterPost.n + 1,
                                     at      |-> Len(FramesOf(meterHist')),
                                     blk     |-> Len(meterHist'),
                                     prevBlk |-> meterPost.blk,
                                     msg     |-> MeterMessageOf(p, block)]
               ELSE /\ meterProc' = p
                    /\ UNCHANGED meterPost
    /\ UNCHANGED <<limiterVars, wavVars, engineVars>>

\* the process() calls a run makes
MaxMeterBlocks == 10

\* frames of a block (128 in the browser)
MeterBlockSize == 2

\* sample rates of the scope the processor is made in
MeterRates == {5, 80}

\* the inputs of a block: no input, silence, one channel, two equal
\* channels, two opposite channels, two channels that differ
BlockKinds == {"none", "silence", "mono", "same", "inverted", "mixed"}

KindFrame(kind, i) ==
    CASE kind = "silence"  -> <<0, 0>>
      [] kind = "mono"     -> <<5>>
      [] kind = "same"     -> <<5, 5>>
      [] kind = "inverted" -> <<5, -5>>
      [] kind = "mixed"    -> IF i % 2 = 1 THEN <<5, 3>> ELSE <<3, 5>>

BlockOf(kind) ==
    IF kind = "none" THEN <<>>
    ELSE [i \in 1..MeterBlockSize |-> KindFrame(kind, i)]

\* the number of places where a block differs from the one before it
Switches(blocks) ==
    Cardinality({i \in 1..(Len(blocks) - 1) : blocks[i] /= blocks[i + 1]})

\* the input changes at most twice in a run
MeterNext ==
    \E kind \in BlockKinds :
        /\ Len(meterHist) < MaxMeterBlocks
        /\ Switches(Append(meterHist, BlockOf(kind))) <= 2
        /\ MeterProcess(BlockOf(kind))

MeterSpecInit ==
    /\ LimiterInit
    /\ \E sr \in MeterRates : MeterInit(sr)
    /\ WavInit
    /\ EngineInit
    /\ mediaRecorderSupported = TRUE

MeterSpec == MeterSpecInit /\ [][MeterNext]_vars

----------------------------------------------------------------------------
(* Playback when the page goes to the background and comes back.           *)

SuspendNext ==
    \/ \E n \in FileCounts, mode \in Modes : AddFilesToPlaylist(n, mode)
    \/ CanPlay
    \/ \E i \in LoadPositions, autoplay \in BOOLEAN, playOk \in BOOLEAN :
           LoadTrackAt(i, autoplay, playOk)
    \/ \E playOk \in BOOLEAN : TogglePlay(playOk)
    \/ AudioTick
    \/ \E playOk \in BOOLEAN : AudioEnded(playOk)
    \/ PauseForBackground
    \/ \E playOk \in BOOLEAN : ResumeFromBackground(playOk)

SuspendSpec == Init /\ [][SuspendNext]_vars

----------------------------------------------------------------------------
(* Preset sessions: the graph is built, the meter reports, and the user    *)
(* stores, recalls, exports and imports presets between chain edits.       *)

\* the most calls a preset session makes
MaxPresetCalls == 4

\* integrated loudness values the meter reports in a preset session
PresetMeterReadings == {-100, -160}

\* the chain edit of a preset session
PresetOutputWrites == {<<"trim", 60>>}

\* a session has MaxPresetCalls calls before calls reaches MaxCalls
PresetInit ==
    /\ LimiterInit
    /\ MeterInit(5)
    /\ WavInit
    /\ EngineStart
    /\ mediaRecorderSupported = TRUE
    /\ calls = MaxCalls - MaxPresetCalls
    /\ listOps = 0
    /\ stored = NoStored

PresetNext ==
    \/ InitAudio(1)
    \/ \E l \in PresetMeterReadings : MeterMessage(l)
    \/ \E w \in PresetOutputWrites : SetOutput(w[1], w[2])
    \/ \E enabled \in BOOLEAN : SetGainMatchEnabled(enabled)
    \/ \E slot \in Slots : SetActivePresetSlot(slot)
    \/ \E slot \in Slots : StorePresetSlot(slot)
    \/ \E slot \in Slots : RecallPresetSlot(slot)
    \/ \E parsed \in ImportDocs : ImportPresetJson(parsed)
    \/ ExportPresetJson
    \/ ImportExportedPreset

PresetSpec == PresetInit /\ [][PresetNext]_vars

----------------------------------------------------------------------------
(* WAV encoding: useAudioEngine.ts, lines 1677-1724.  A buffer is its      *)
(* sample rate and its channels, each the sequence of its samples; a       *)
(* sample is a whole number of eighths (8 = 1.0) or NaN.  The file is the  *)
(* sequence of its bytes.                                                  *)

\* view.setUint8 of the char codes of "RIFF", "WAVE", "fmt " and "data"
\* (writeString, lines 1689-1693)
WriteString(value) ==
    CASE value = "RIFF" -> <<82, 73, 70, 70>>
      [] value = "WAVE" -> <<87, 65, 86, 69>>
      [] value = "fmt " -> <<102, 109, 116, 32>>
      [] value = "data" -> <<100, 97, 116, 97>>

\* view.setUint16(offset, v, true): v modulo 2^16, low byte first
SetUint16(v) == <<v % 256, (v \div 256) % 256>>

\* view.setUint32(offset, v, true), for v below 2^31
SetUint32(v) ==
    <<v % 256, (v \div 256) % 256, (v \div 65536) % 256,
      (v \div 16777216) % 256>>

\* view.setInt16(offset, x, true) for x = x8 / 8: NaN is written as 0, any
\* other number is cut to its whole part and taken modulo 2^16
SetInt16(x8) ==
    IF x8 = NaN THEN <<0, 0>>
    ELSE LET whole == IF x8 < 0 THEN -((-x8) \div 8) ELSE x8 \div 8
         IN SetUint16(whole % 65536)

\* the bytes of a sample written without Math.max and Math.min
WavSampleUnclamped(sample) ==
    SetInt16(IF sample = NaN THEN NaN
             ELSE IF sample < 0 THEN sample * 32768 ELSE sample * 32767)

\* the bytes of one sample (lines 1712-1718); Math.min and Math.max give
\* NaN for NaN
WavSample(sample) ==
    LET clamped == IF sample = NaN THEN NaN
                   ELSE IF sample > 8 THEN 8
                   ELSE IF sample < -8 THEN -8 ELSE sample
    IN SetInt16(IF clamped = NaN THEN NaN
                ELSE IF clamped < 0 THEN clamped * 32768
                ELSE clamped * 32767)

\* audioBufferToWav(buffer): the bytes of the Blob
AudioBufferToWav(buffer) ==
    LET numChannels    == Len(buffer.channels)
        sampleRate     == buffer.sampleRate
        samples        == Len(buffer.channels[1])
        bytesPerSample == 2
        blockAlign     == numChannels * bytesPerSample
        byteRate       == sampleRate * blockAlign
        dataSize       == samples * blockAlign
        at(k)          == LET j == (k - 1) \div bytesPerSample
                          IN WavSample(buffer.channels[(j % numChannels) + 1]
                                                      [(j \div numChannels) + 1])
                                 [((k - 1) % bytesPerSample) + 1]
    IN WriteString("RIFF") \o SetUint32(36 + dataSize)
         \o WriteString("WAVE") \o WriteString("fmt ")
         \o SetUint32(16) \o SetUint16(1) \o SetUint16(numChannels)
         \o SetUint32(sampleRate) \o SetUint32(byteRate)
         \o SetUint16(blockAlign) \o SetUint16(bytesPerSample * 8)
         \o WriteString("data") \o SetUint32(dataSize)
         \o [k \in 1..dataSize |-> at(k)]

\* the most frames of a buffer
MaxWavFrames == 2

\* rendered buffers have one or two channels
WavChannels == {1, 2}

WavRates == {8000, 48000}

\* -1.125, -1, -0.375, 0, 0.625, 1.125 and NaN
WavSamples == {-9, -8, -3, 0, 5, 9, NaN}

WavBuffers ==
    UNION {[sampleRate : WavRates,
            channels : [1..c -> [1..f -> WavSamples]]] :
               c \in WavChannels, f \in 0..MaxWavFrames}

\* one call of audioBufferToWav
EncodeWav(buffer) ==
    /\ wavIn' = buffer
    /\ wavBytes' = AudioBufferToWav(buffer)
    /\ UNCHANGED <<limiterVars, meterVars, engineVars>>

\* a behaviour encodes one buffer
WavNext == wavBytes = <<>> /\ \E buffer \in WavBuffers : EncodeWav(buffer)

WavSpec == Init /\ [][WavNext]_vars

----------------------------------------------------------------------------
(* Playlist sessions: the user adds files, selects, moves and removes      *)
(* items.                                                                  *)

\* the most playlist edits of a playlist session
MaxReorderOps == 3

\* a session has MaxReorderOps edits before listOps reaches MaxListOps
ReorderInit ==
    /\ LimiterInit
    /\ MeterInit(5)
    /\ WavInit
    /\ EngineStart
    /\ mediaRecorderSupported = TRUE
    /\ calls = 0
    /\ listOps = MaxListOps - MaxReorderOps
    /\ stored = NoStored

ReorderNext ==
    \/ \E n \in FileCounts, mode \in Modes : AddFilesToPlaylist(n, mode)
    \/ \E from \in Positions, to \in Positions : MovePlaylistItem(from, to)
    \/ \E ids \in RemoveSets : RemovePlaylistItems(ids)
    \/ \E index \in Positions : LoadTrackAt(index, FALSE, TRUE)
    \/ CanPlay

ReorderSpec == ReorderInit /\ [][ReorderNext]_vars

----------------------------------------------------------------------------
(* Startup with a stored playlist: useAudioEngine.ts, lines 2162-2210 and  *)
(* 3605-3618; playlistStore.ts, lines 52-106.  An IndexedDB transaction is *)
(* one step.  Requests to open the database are served in the order they   *)
(* were made and a readwrite transaction waits for the transactions made   *)
(* before it, so the three kinds of transaction run in the order of their  *)
(* calls: the mount's load, the mount's clear, then the saves.             *)

\* everything but the database, what was read from it and the pending
\* clear and save
outsideStore == <<detachedVars, chainVars, presetVars, graphVars, hostVars,
                  calls, initVars, playVars, exportVars, mounted, playlist,
                  currentIndex, restorePending, artwork, listOps, urlVars>>

\* the readonly transaction of loadStoredPlaylist() (playlistStore.ts 82-97)
LoadTransaction ==
    /\ loadRead = NotRead
    /\ loadRead' = stored
    /\ UNCHANGED <<stored, clearPending, saveTimer, outsideStore>>

\* the readwrite transaction of clearStoredPlaylist()
\* (playlistStore.ts 99-106)
ClearTransaction ==
    /\ clearPending
    /\ loadRead /= NotRead
    /\ stored' = NoStored
    /\ clearPending' = FALSE
    /\ UNCHANGED <<loadRead, saveTimer, outsideStore>>

\* the timer of the persist effect fires and saveStoredPlaylist() writes
\* (lines 3612-3616, playlistStore.ts 52-80)
SaveTimerFires ==
    /\ mounted
    /\ saveTimer /= NoTimer
    /\ ~clearPending
    /\ stored' = saveTimer
    /\ saveTimer' = NoTimer
    /\ UNCHANGED <<loadRead, clearPending, outsideStore>>

\* the promise of loadStoredPlaylist() settles with what was read
LoadSettles ==
    /\ loadRead /= NotRead
    /\ RestoreItems(loadRead.order, loadRead.currentIndex)

\* the playlists a database holds at mount, with the index saved last
StoredOrders == {<<1>>, <<1, 2>>, <<2, 1>>}

StoredIndexes == {0, 1}

StartupInit ==
    /\ LimiterInit
    /\ MeterInit(5)
    /\ WavInit
    /\ EngineStart
    /\ mediaRecorderSupported = TRUE
    /\ calls = 0
    /\ listOps = 0
    /\ \E order \in StoredOrders, index \in StoredIndexes :
          stored = [order |-> order, currentIndex |-> index]

StartupNext ==
    \/ LoadTransaction
    \/ ClearTransaction
    \/ LoadSettles
    \/ SaveTimerFires
    \/ CanPlay
    \/ \E index \in Positions : LoadTrackAt(index, FALSE, TRUE)
    \/ \E playOk \in BOOLEAN : TogglePlay(playOk)
    \/ Unmount

StartupSpec == StartupInit /\ [][StartupNext]_vars

----------------------------------------------------------------------------
(* Stepping through the playlist: useAudioEngine.ts, lines 2449-2475 and   *)
(* 3553-3559.  prevTrack() and nextTrack() are playPrev and playNext with  *)
(* {autoplay: true}.                                                       *)

\* playNext without the early return for an unchanged index
PlayNextReload(autoplay, playOk) ==
    LET next == Clamp(currentIndex + 1, 0, Len(playlist) - 1)
    IN /\ Call
       /\ IF playlist = <<>>
          THEN UNCHANGED <<error, currentIndex, audioSrc, audioTime, trackTime,
                           canPlayPending, audioPaused, isPlaying,
                           playbackState>>
          ELSE LoadTrack(next, autoplay, playOk)
       /\ UNCHANGED <<mounted, playlist, restorePending, artwork, listOps,
                      urlVars, resumeVars, exportVars, outsidePlayback>>
       /\ PersistEffect(currentIndex' /= currentIndex)

\* playNext({autoplay})
PlayNext(autoplay, playOk) ==
    LET next == Clamp(currentIndex + 1, 0, Len(playlist) - 1)
    IN /\ Call
       /\ IF playlist = <<>> \/ next = currentIndex
          THEN UNCHANGED <<error, currentIndex, audioSrc, audioTime, trackTime,
                           canPlayPending, audioPaused, isPlaying,
                           playbackState>>
          ELSE LoadTrack(next, autoplay, playOk)
       /\ UNCHANGED <<mounted, playlist, restorePending, artwork, listOps,
                      urlVars, resumeVars, exportVars, outsidePlayback>>
       /\ PersistEffect(currentIndex' /= currentIndex)

\* playPrev({autoplay})
PlayPrev(autoplay, playOk) ==
    LET prev == Clamp(currentIndex - 1, 0, Len(playlist) - 1)
    IN /\ Call
       /\ IF playlist = <<>> \/ prev = currentIndex
          THEN UNCHANGED <<error, currentIndex, audioSrc, audioTime, trackTime,
                           canPlayPending, audioPaused, isPlaying,
                           playbackState>>
          ELSE LoadTrack(prev, autoplay, playOk)
       /\ UNCHANGED <<mounted, playlist, restorePending, artwork, listOps,
                      urlVars, resumeVars, exportVars, outsidePlayback>>
       /\ PersistEffect(currentIndex' /= currentIndex)

\* a session that fills the playlist and steps through it
StepNext ==
    \/ \E n \in FileCounts, mode \in Modes : AddFilesToPlaylist(n, mode)
    \/ CanPlay
    \/ \E i \in LoadPositions, autoplay \in BOOLEAN, playOk \in BOOLEAN :
           LoadTrackAt(i, autoplay, playOk)
    \/ \E playOk \in BOOLEAN : TogglePlay(playOk)
    \/ AudioTick
    \/ \E playOk \in BOOLEAN : AudioEnded(playOk)
    \/ \E playOk \in BOOLEAN : PlayNext(TRUE, playOk)
    \/ \E playOk \in BOOLEAN : PlayPrev(TRUE, playOk)

StepSpec == Init /\ [][StepNext]_vars

----------------------------------------------------------------------------
(* The playback flags: useAudioEngine.ts, lines 3538-3559.                 *)

\* the "error" listener onErr: the element reports a media error for the
\* source it holds; it stays unpaused when it was playing
AudioError ==
    /\ mounted
    /\ audioSrc /= 0
    /\ error' = "media"
    /\ playbackState' = "error"
    /\ UNCHANGED <<isPlaying, mediaVars, listVars, exportVars, calls,
                   outsidePlayback>>

\* a session of the handlers and operations that write the playback flags
FlagsNext ==
    \/ InitAudio(1)
    \/ \E n \in FileCounts, mode \in Modes : AddFilesToPlaylist(n, mode)
    \/ \E ids \in RemoveSets : RemovePlaylistItems(ids)
    \/ CanPlay
    \/ \E i \in LoadPositions, autoplay \in BOOLEAN, playOk \in BOOLEAN :
           LoadTrackAt(i, autoplay, playOk)
    \/ \E playOk \in BOOLEAN : TogglePlay(playOk)
    \/ AudioTick
    \/ \E playOk \in BOOLEAN : AudioEnded(playOk)
    \/ AudioError

FlagsSpec == Init /\ [][FlagsNext]_vars

----------------------------------------------------------------------------
(* startExport() called while another call is in flight: useAudioEngine.ts *)
(* lines 3226-3248.  The function does not read isExporting; canExport     *)
(* (3764-3765) only reaches the host.  The second call is followed on its  *)
(* deterministic path: the current item exists when it starts and its      *)
(* exportOfflineWav() resolves, so it touches neither the element nor the  *)
(* recorder; its file is not recorded in download.                         *)

\* startExport() during another call, up to its await of exportOfflineWav()
StartExportOverlap ==
    /\ Call
    /\ exportPc \in {"offline", "recording"}
    /\ overlapPc \in {"idle", "done"}
    /\ audioSrc /= 0
    /\ currentIndex + 1 \in DOMAIN playlist
    /\ isExporting' = TRUE
    /\ error' = "none"
    /\ overlapPc' = "offline"
    /\ UNCHANGED <<exportPc, exportOffline, fallbackRan, download, recState,
                   endedHook, exportSnap, renderVars, playbackState,
                   isPlaying, mediaVars, listVars, outsidePlayback>>

\* that call's exportOfflineWav() resolves and its finally block runs
OverlapSettled ==
    /\ overlapPc = "offline"
    /\ overlapPc' = "done"
    /\ isExporting' = FALSE
    /\ UNCHANGED <<exportPc, exportOffline, fallbackRan, download, recState,
                   endedHook, exportSnap, renderVars, playVars, listVars,
                   calls, outsidePlayback>>

\* a session with up to two exports in flight
OverlapNext ==
    \/ InitAudio(1)
    \/ \E n \in FileCounts, mode \in Modes : AddFilesToPlaylist(n, mode)
    \/ CanPlay
    \/ AudioTick
    \/ \E playOk \in BOOLEAN : AudioEnded(playOk)
    \/ StartExport
    \/ \E rendered \in BOOLEAN, playOk \in BOOLEAN, signal \in ExportSignals :
           ExportOfflineSettled(rendered, playOk, signal)
    \/ RecorderError
    \/ StartExportOverlap
    \/ OverlapSettled

OverlapSpec == Init /\ [][OverlapNext]_vars

----------------------------------------------------------------------------
(* The loop's animation-frame requests under start(), stop(), destroy()    *)
(* and frames: initAudio and the host's effect start the loop, the host,   *)
(* the auto-disable and teardownAudio stop it, unmounting destroys it.     *)

LoopNext ==
    \/ InitBegin(1)
    \/ InitMeterLoaded(1, TRUE)
    \/ InitLimiterLoaded(1, TRUE)
    \/ InitFinish(1)
    \/ \E active \in BOOLEAN : SetVisualizerActive(active)
    \/ HandleVisualizerAutoDisable
    \/ \E elapsed \in TickElapsed : VisualizerTick(elapsed)
    \/ Unmount

LoopSpec == Init /\ [][LoopNext]_vars

----------------------------------------------------------------------------
(* The seek ring: useAudioEngine.ts, lines 2711-2784.  Every file has a    *)
(* duration the probe of addFilesToPlaylist reads, TrackLength ticks, so   *)
(* track.duration is TrackLength while the element holds a source and 0    *)
(* otherwise (lines 1566-1573, 2676-2683).  calcRingProgress gives the     *)
(* pointer's place on the ring, here in percent; isLoading is not part of  *)
(* the model.                                                              *)

\* track.duration
TrackDuration == IF audioSrc /= 0 THEN TrackLength ELSE 0

\* places on the ring the pointer is pressed at
PressPoints == {0, 50}

\* places on the ring the pointer is dragged to and released at
RingPoints == {0, 50, 100}

\* audioEl.readyState >= 1 can be read as ready: metadata is there at the
\* latest when "canplay" has been delivered, and never without a source
ReadyState(ready) ==
    /\ ready => audioSrc /= 0
    /\ ~ready => canPlayPending \/ audioSrc = 0

\* ringSeekTo(p, commit) with the element's readyState >= 1 being ready
RingSeekTo(p, commit, ready) ==
    LET pct     == Clamp(p, 0, 100)
        seeks   == TrackDuration > 0 /\ commit /\ ready
        newTime == (pct * TrackDuration) \div 100
    IN /\ dragProgress' = IF TrackDuration > 0 THEN pct ELSE dragProgress
       /\ audioTime' = IF seeks THEN newTime ELSE audioTime
       /\ trackTime' = IF seeks THEN newTime ELSE trackTime

\* what the ring's handlers leave alone
outsideRing == <<playbackState, isPlaying, error, audioSrc, audioPaused,
                 canPlayPending, resumeVars, listVars, exportVars, calls,
                 chainVars, presetVars, graphVars, hostVars, initVars,
                 workletVars>>

\* onRingPointerDown
OnRingPointerDown(p) ==
    /\ mounted
    /\ IF TrackDuration = 0
       THEN UNCHANGED <<ringVars, audioTime, trackTime>>
       ELSE /\ isDragging' = TRUE
            /\ RingSeekTo(p, FALSE, FALSE)
    /\ UNCHANGED outsideRing

\* onRingPointerMove
OnRingPointerMove(p) ==
    /\ mounted
    /\ IF ~isDragging
       THEN UNCHANGED <<dragProgress, audioTime, trackTime>>
       ELSE RingSeekTo(p, FALSE, FALSE)
    /\ UNCHANGED <<isDragging, outsideRing>>

\* onRingPointerUp
OnRingPointerUp(p, ready) ==
    /\ mounted
    /\ ReadyState(ready)
    /\ IF ~isDragging
       THEN UNCHANGED <<dragProgress, audioTime, trackTime>>
       ELSE RingSeekTo(p, TRUE, ready)
    /\ isDragging' = FALSE
    /\ UNCHANGED outsideRing

\* onRingPointerCancel
OnRingPointerCancel ==
    /\ mounted
    /\ isDragging' = FALSE
    /\ UNCHANGED <<dragProgress, audioTime, trackTime, outsideRing>>

\* a session with the pointer on the ring while tracks load, play and end
RingNext ==
    \/ \E n \in FileCounts, mode \in Modes : AddFilesToPlaylist(n, mode)
    \/ \E ids \in RemoveSets : RemovePlaylistItems(ids)
    \/ CanPlay
    \/ \E i \in LoadPositions, autoplay \in BOOLEAN, playOk \in BOOLEAN :
           LoadTrackAt(i, autoplay, playOk)
    \/ AudioTick
    \/ \E playOk \in BOOLEAN : AudioEnded(playOk)
    \/ \E p \in PressPoints : OnRingPointerDown(p)
    \/ \E p \in RingPoints : OnRingPointerMove(p)
    \/ \E p \in RingPoints, ready \in BOOLEAN : OnRingPointerUp(p, ready)
    \/ OnRingPointerCancel

RingSpec == Init /\ [][RingNext]_vars

----------------------------------------------------------------------------
C2_BypassPassThrough ==
    limParams.bypass = 1 => limOut = limIn /\ limEnv = 100

(* C3: after any sequence of parameter mutations every stored field of    *)
(* ChainState lies in its documented range and no sub-object is undefined.  *)
C3_ClampOnWrite ==
    /\ saturation /= Undefined /\ stereo /= Undefined /\ output /= Undefined
    /\ \A b \in Bands : eq[b] >= -240 /\ eq[b] <= 240
    /\ compressor.threshold >= -400 /\ compressor.threshold <= 0
    /\ compressor.ratio >= 1 /\ compressor.ratio <= 8
    /\ compressor.attack >= 1 /\ compressor.attack <= 200
    /\ compressor.release >= 50 /\ compressor.release <= 1000
    /\ compressor.makeup >= -60 /\ compressor.makeup <= 120
    /\ limiter.threshold >= -120 /\ limiter.threshold <= 0
    /\ limiter.ceiling >= -60 /\ limiter.ceiling <= 0
    /\ limiter.release >= 10 /\ limiter.release <= 1000
    /\ saturation.drive >= 0 /\ saturation.drive <= 100
    /\ saturation.mix >= 0 /\ saturation.mix <= 100
    /\ stereo.width >= 0 /\ stereo.width <= 200
    /\ stereo.pan >= -100 /\ stereo.pan <= 100
    /\ output.trim >= -120 /\ output.trim <= 120
    /\ volume >= 0 /\ volume <= 100

(* C4: applyBandGain(band, x) stores eq[band] = clamp(x, -24, 24), writes   *)
(* the same value to the band's live filter when it exists, and leaves the  *)
(* other four band gains unchanged.                                         *)
C4_BandGainClamp ==
    [][\A band \in Bands, x \in BandGains :
          ApplyBandGain(band, x) =>
              /\ eq'[band] = (IF x > 240 THEN 240 ELSE IF x < -240 THEN -240 ELSE x)
              /\ \A other \in Bands \ {band} : eq'[other] = eq[other]
              /\ "filters" \in refs => live'.eq[band] = eq'[band]]_vars

\* applyBandGain("sub", 40) on the built graph: 24 dB stored and on the filter
C4_Witness ==
    /\ "filters" \in refs
    /\ eq = [DEFAULT_EQ EXCEPT !["sub"] = 240]
    /\ live.eq = eq

(* C5: whenever the graph is initialized (initAudio has returned true),     *)
(* every live stage parameter equals the value derived from the current     *)
(* ChainState, straight after initialization and after every mutation.      *)
C5_LiveMirrorsChain ==
    (isInitialized /\ initRet[1] = "true" /\ ~Crashed)
        => live = EffectsRun(live, NodeRefs,
                             {"eq", "output", "compressor", "saturation",
                              "stereo", "limiter"}, Chain)

(* C6: between a successful initAudio and the unmount of the engine no     *)
(* playlist operation runs teardownAudio: the graph stops being             *)
(* initialized only in the step that unmounts the engine.                   *)
C6_GraphLivesUntilShutdown ==
    [][(isInitialized /\ (\E c \in InitCalls : initRet[c] = "true")
           /\ ~isInitialized') => ~mounted']_vars

(* C7: in every interleaving of initAudio calls, a call returns true, and   *)
(* sets playbackState to 'ready' or 'playing', only when the whole graph    *)
(* has been built (isInitialized is true).                                  *)
C7_InitSuccessMeansGraph ==
    [][\A c \in InitCalls :
          (initRet'[c] = "true" /\ initRet[c] /= "true")
              => (isInitialized' /\ playbackState' \in {"ready", "playing"})]_vars

(* C8: every startExport that passes its preconditions ends in exactly one  *)
(* of three outcomes: (a) the offline render succeeded, a WAV was produced, *)
(* the fallback never ran and no export error is set; (b) the render        *)
(* failed, the recorder fallback ran and produced a recording, and no       *)
(* export error is set; (c) both paths failed and the "Export failed"       *)
(* error is set.  No run ends with neither a file nor an error.             *)
C8_ExportOutcomes ==
    [][(exportPc /= "done" /\ exportPc' = "done") =>
          \/ /\ exportOffline' = "ok" /\ ~fallbackRan'
             /\ download' = "wav" /\ error' /= "export"
          \/ /\ exportOffline' = "failed" /\ fallbackRan'
             /\ download' = "webm" /\ error' /= "export"
          \/ /\ exportOffline' = "failed" /\ fallbackRan'
             /\ download' = "none" /\ error' = "export"]_vars

(* C9: once exportViaRecorder has started recording, whatever the user and  *)
(* the platform do next, startExport eventually reaches its finally block   *)
(* and isExporting is false again.                                          *)
C9_RecordingExportEnds == (exportPc = "recording") ~> ~isExporting

(* C10: when the offline render of a startExport fails, and the element was *)
(* paused when startExport was called, and no other call, playlist edit or  *)
(* playlist restore has happened since, then after startExport finishes the *)
(* current index, the playback position and the paused status are what they *)
(* were when it was called.                                                 *)
C10_ExportLeavesPlayback ==
    (/\ exportPc = "done"
     /\ exportOffline = "failed"
     /\ exportSnap.paused
     /\ calls = exportSnap.calls
     /\ listOps = exportSnap.listOps
     /\ restorePending = exportSnap.restorePending)
        => /\ currentIndex = exportSnap.index
           /\ audioTime = exportSnap.time
           /\ audioPaused

(* C11: for the state an offline render is made from, the offline graph has *)
(* the stage order of the live graph (the pass-through meter aside) and its *)
(* band constants, and every offline stage parameter equals the value the   *)
(* live stage holds for that state once the effects have run.               *)
C11_OfflineEqualsLive ==
    render.phase = "done" =>
        /\ OfflineStages = Without(LiveStages, {"meter"})
        /\ OfflineBands = LiveBands
        /\ render.graph = LiveGraph(render.st)

(* C12: the samples of an offline render depend only on the signal, the     *)
(* ChainState, the normalize flag and targetLufs: with any other volume,    *)
(* mute flag or gain-match offset in the engine the same render gives the   *)
(* same samples.                                                            *)
C12_RenderIgnoresEngineState ==
    render.phase = "done" =>
        \A v \in {0, 50, 100}, m \in BOOLEAN, off \in {-60, 0, 60} :
            OfflineSamples(render.signal,
                           [render.st EXCEPT !.volume = v, !.isMuted = m,
                                             !.gainMatchOffset = off],
                           render.normalize, render.target) = render.samples

C14_NormalizationReachesTarget ==
    (/\ render.phase = "done"
     /\ render.normalize
     /\ CalcIntegratedLufs(RenderBuffer(render.signal, render.graph), 2) > -1200)
        => Abs(CalcIntegratedLufs(render.samples, 4) - render.target) <= 3

----------------------------------------------------------------------------
(* C15: importPresetJson of a file that is not JSON, or whose document     *)
(* lacks eq, compressor or limiter, fails with an error and leaves          *)
(* ChainState, preset slots A and B, the active slot, the gain-match offset *)
(* and the persisted preset entries as they were before the call.           *)

\* the document is not JSON or lacks a required sub-object
LacksRequired(parsed) ==
    \/ parsed = NotJson
    \/ \E k \in {"eq", "compressor", "limiter"} : parsed[k] = Undefined

C15_ImportValidationAtomic ==
    [][\A parsed \in ImportDocs :
          (LacksRequired(parsed) /\ ImportPresetJson(parsed)) =>
              /\ importResult' = "throws"
              /\ UNCHANGED <<chainVars, presetA, presetB, activePresetSlot,
                             gainMatchOffset, storedPresets>>]_vars

\* an import was rejected in a session that has a stored preset and an
\* edited chain
C15_Witness ==
    /\ importResult = "throws"
    /\ presetA /= NoPreset
    /\ output.trim = 60

----------------------------------------------------------------------------
(* C16: importing, in any later state, the file exportPresetJson produced   *)
(* in a state s gives a ChainState equal to s in eq (all five bands),       *)
(* compressor, limiter, saturation, stereo and output.                      *)
C16_PresetRoundTrip ==
    [][ImportExportedPreset =>
          /\ eq' = presetFileFrom.eq
          /\ compressor' = presetFileFrom.compressor
          /\ limiter' = presetFileFrom.limiter
          /\ saturation' = presetFileFrom.saturation
          /\ stereo' = presetFileFrom.stereo
          /\ output' = presetFileFrom.output]_vars

\* a file exported at trim 0 was imported after the trim had been set to 6
\* and stored in slot B
C16_Witness ==
    /\ importResult = "ok"
    /\ presetFile /= NoFile
    /\ presetFileFrom.output.trim = 0
    /\ ~Crashed
    /\ output.trim = 0
    /\ presetB /= NoPreset
    /\ presetB.output /= Undefined
    /\ presetB.output.trim = 60

----------------------------------------------------------------------------
(* C17: with gain matching on and both slots holding presets with a         *)
(* recorded lufs, recallPresetSlot(target) sets the gain-match offset to    *)
(* the difference of the active slot's lufs and the target's, clamped to    *)
(* [-12, 12] dB, applies the target preset's ChainState and makes target    *)
(* the active slot; A at -10 LUFS and B at -16 LUFS recalled from A give 6. *)
(* Recalling an empty slot changes nothing.                                 *)

\* the preset in a slot
SlotPreset(slot) == IF slot = "A" THEN presetA ELSE presetB

\* the slot holds a preset with a recorded lufs, a number
HasLufs(slot) ==
    /\ SlotPreset(slot) /= NoPreset
    /\ SlotPreset(slot).lufs /= <<>>
    /\ SlotPreset(slot).lufs[1] /= NaN

\* the difference of the recorded lufs, limited to 12 dB either way
MatchOffset(from, to) ==
    LET d == SlotPreset(from).lufs[1] - SlotPreset(to).lufs[1]
    IN IF d < -120 THEN -120 ELSE IF d > 120 THEN 120 ELSE d

C17_GainMatchedRecall ==
    [][\A target \in Slots :
          RecallPresetSlot(target) =>
              /\ (gainMatchEnabled /\ HasLufs("A") /\ HasLufs("B")) =>
                    /\ gainMatchOffset' = MatchOffset(activePresetSlot, target)
                    /\ activePresetSlot' = target
                    /\ \A b \in DOMAIN SlotPreset(target).eq :
                          eq'[b] = SlotPreset(target).eq[b]
                    /\ compressor' = SlotPreset(target).compressor
                    /\ limiter' = SlotPreset(target).limiter
                    /\ saturation' = SlotPreset(target).saturation
                    /\ stereo' = SlotPreset(target).stereo
                    /\ output' = SlotPreset(target).output
                    /\ (/\ activePresetSlot = "A" /\ target = "B"
                        /\ presetA.lufs = <<-100>> /\ presetB.lufs = <<-160>>)
                          => gainMatchOffset' = 60
              /\ SlotPreset(target) = NoPreset =>
                    UNCHANGED <<chainVars, presetA, presetB, activePresetSlot,
                                gainMatchEnabled, gainMatchOffset, storedPresets,
                                live>>]_vars

\* B, stored at -16 LUFS, was recalled from A, stored at -10 LUFS
C17_Witness ==
    /\ gainMatchEnabled
    /\ HasLufs("A") /\ HasLufs("B")
    /\ presetA.lufs = <<-100>> /\ presetB.lufs = <<-160>>
    /\ activePresetSlot = "B"
    /\ gainMatchOffset = 60

----------------------------------------------------------------------------
(* C18: in every reachable state the stored gain-match offset lies in       *)
(* [-12, 12] dB; it is 0 once gain matching has been turned off; and while  *)
(* gain matching is off the offset adds nothing to the output gain target,  *)
(* after recallPresetSlot and importPresetJson as well.                     *)
C18_GainMatchOffsetBounded ==
    /\ gainMatchOffset \in -120..120
    /\ ~gainMatchEnabled => gainMatchOffset = 0
    /\ (~gainMatchEnabled /\ ~RenderThrows) =>
           OutputTarget(Chain) = OutputTarget([Chain EXCEPT !.gainMatchOffset = 0])

----------------------------------------------------------------------------
(* C19: storePresetSlot(X) sets slot X to the current ChainState plus the   *)
(* current lufsIntegrated and leaves the other slot unchanged; a stored     *)
(* slot changes under no later ChainState mutation or recall, only when     *)
(* the same slot is stored again or a preset is imported into it.           *)

\* the six ChainState objects and the meter's integrated loudness
Snapshot ==
    [eq |-> eq, compressor |-> compressor, limiter |-> limiter,
     saturation |-> saturation, stereo |-> stereo, output |-> output,
     lufs |-> <<meterLufs>>]

\* a preset file is imported while slot is the active slot
ImportInto(slot) ==
    /\ activePresetSlot = slot
    /\ importResult' = "ok"
    /\ \/ \E parsed \in ImportDocs : ImportPresetJson(parsed)
       \/ ImportExportedPreset

C19_SlotsAreSnapshots ==
    [][/\ StorePresetSlot("A") => (presetA' = Snapshot /\ presetB' = presetB)
       /\ StorePresetSlot("B") => (presetB' = Snapshot /\ presetA' = presetA)
       /\ presetA' /= presetA => (StorePresetSlot("A") \/ ImportInto("A"))
       /\ presetB' /= presetB => (StorePresetSlot("B") \/ ImportInto("B"))]_vars

\* A was stored, the trim was edited and stored in B, and B was made the
\* active slot: A still holds the trim it was stored with
C19_Witness ==
    /\ presetA /= NoPreset /\ presetB /= NoPreset
    /\ ~Crashed
    /\ presetA.output = DefaultOutput
    /\ presetB.output /= Undefined
    /\ presetB.output.trim = 60
    /\ output.trim = 60
    /\ activePresetSlot = "B"

----------------------------------------------------------------------------
(* C20: once the fps average has stayed under 32 over drawn ticks that add  *)
(* up to more than 4000 ms, the loop is stopped and the host has been       *)
(* signalled exactly once; no critical or background pass is drawn after    *)
(* that, whatever initAudio or a mode change tries to start, until the host *)
(* turns visualizerActive off and on again.                                 *)
C20_AutoDisableOnce ==
    /\ vizRunning => lowFpsDuration <= LowFpsWindow
    /\ disableSignals <= 1
    /\ drawsAfterDisable = "none"

----------------------------------------------------------------------------
(* C21: a tick whose elapsed time since lastFrameTime (the time of start(), *)
(* or the time of the latest drawn tick less the remainder of that tick's   *)
(* elapsed time over 1000/60 ms) is under 1000/60 ms draws nothing and      *)
(* changes neither the fps average, the frame counter nor the low-fps       *)
(* accumulator; every other tick that does not auto-disable performs the    *)
(* critical pass once, and the background pass if and only if frameCount    *)
(* mod N = 0, N = 3 under 30 fps, 2 from 30 to under 45, 1 otherwise.       *)

\* an animation frame came to the running loop in this step
FrameCame == vizRunning /\ (frameCount' /= frameCount \/ sinceFrame' > sinceFrame)

DegradeN(ema) == IF ema < 3000 THEN 3 ELSE IF ema >= 3000 /\ ema < 4500 THEN 2 ELSE 1

\* what the policy asks of a frame that came age after the reference time
DegradePolicy(age) ==
    IF age < FrameInterval
    THEN /\ lastTick'.passes = "none"
         /\ UNCHANGED <<fpsEma, frameCount, lowFpsDuration>>
    ELSE vizRunning' =>
            /\ frameCount' = frameCount + 1
            /\ lastTick'.passes = IF frameCount' % DegradeN(fpsEma') = 0
                                  THEN "both" ELSE "critical"

C21_DegradePolicy == [][FrameCame => DegradePolicy(lastTick'.elapsed)]_vars

\* the ninth frame, at under 30 fps, draws both passes
C21_Witness ==
    /\ vizRunning
    /\ fpsEma < 3000
    /\ frameCount = 9
    /\ lastTick.passes = "both"

\* C21 as stated: the time is measured from the latest drawn tick
C21_CeilingSinceLastDraw ==
    [][FrameCame /\ lastTick'.sinceDraw /= NoDraw
          => DegradePolicy(lastTick'.sinceDraw)]_vars

----------------------------------------------------------------------------
(* C22: over a background/foreground cycle with no user action in it, the   *)
(* element is paused while the page is hidden, and the track and position   *)
(* stay; once the page is shown again the element plays if and only if it   *)
(* played at backgrounding, at the same track and position, and play() was  *)
(* requested exactly once in that case and not at all otherwise.            *)
C22_SuspendResumeRestores ==
    cycle.phase /= "none" /\ cycle.ops = <<calls, listOps>> =>
        /\ cycle.phase = "hidden" => audioPaused /\ Playback = <<FALSE, cycle.before[2], cycle.before[3]>>
        /\ cycle.phase = "shown" =>
               /\ cycle.after = cycle.before
               /\ cycle.plays = IF cycle.before[1] THEN 1 ELSE 0

----------------------------------------------------------------------------
(* C23: after teardownAudio has run on a context, no ref to a node made by  *)
(* initAudio is set and the visualizer loop holds no analyser, every such   *)
(* node has been disconnected, close() has been called on the context,      *)
(* isInitialized is false and the visualizer loop is stopped.               *)

\* teardownAudio ran in this step: nothing else sets audioCtxRef to null
TeardownRan == audioCtxRef /= 0 /\ audioCtxRef' = 0

C23_TeardownReleasesAll ==
    [][TeardownRan =>
          /\ refs' = {}
          /\ ~vizTaps'
          /\ wired' = {}
          /\ audioCtxRef \in ctxClosed'
          /\ ~isInitialized'
          /\ ~vizRunning']_vars

----------------------------------------------------------------------------
(* C24: after every processed block the momentary running sum equals the    *)
(* sum of the values held in the 400 ms ring buffer and the short-term      *)
(* running sum equals the sum of the values held in the 3000 ms ring        *)
(* buffer.                                                                  *)

RECURSIVE SumRange(_, _, _)
SumRange(q, lo, hi) ==
    IF lo > hi THEN 0
    ELSE IF lo = hi THEN q[lo]
    ELSE LET mid == (lo + hi) \div 2
         IN SumRange(q, lo, mid) + SumRange(q, mid + 1, hi)

SeqSum(q) == SumRange(q, 1, Len(q))

C24_RollingSumsExact ==
    /\ meterProc.momentarySum = SeqSum(meterProc.momentaryBuffer)
    /\ meterProc.shortSum = SeqSum(meterProc.shortBuffer)

----------------------------------------------------------------------------
(* C25: in every report the momentary loudness is -120 when every frame of *)
(* the last 400 ms was silent, the short-term loudness is -120 when every  *)
(* frame of the last 3000 ms was silent, and the integrated loudness is    *)
(* -120 when every frame since the start was silent, whatever was played   *)
(* before the silent window.                                               *)

\* the frames processed up to the last report
Reported == SubSeq(FramesOf(meterHist), 1, meterPost.at)

\* the mean square of a frame
FrameMs(frame) == (MeterFrameSum(frame) * 2) \div Len(frame)

\* the last n processed frames of the last report were silent
SilentFor(n) ==
    \A i \in 1..meterPost.at :
        i > meterPost.at - n => FrameMs(Reported[i]) = 0

C25_SilenceReadsFloor ==
    meterPost.n > 0 =>
        /\ SilentFor(meterProc.momentaryWindow)
              => meterPost.msg.lufsMomentary = -1200
        /\ SilentFor(meterProc.shortWindow)
              => meterPost.msg.lufsShort = -1200
        /\ SilentFor(meterPost.at)
              => meterPost.msg.lufsIntegrated = -1200

----------------------------------------------------------------------------
(* C26: when every frame processed since the start has the same mean       *)
(* square m > 0, every report carries momentary, short-term and integrated *)
(* mean squares equal to m, and each loudness is within 0.01 dB of         *)
(* -0.691 + 10 log10(m).                                                   *)

\* a mean square num / den equals m
MsIs(ms, m) == ms[1] = m * ms[2]

\* a loudness in hundredths of a dB is within 0.01 dB of that of m
LufsIs(lufs, m) ==
    /\ lufs - CalcLufs(m, 1) <= 1
    /\ CalcLufs(m, 1) - lufs <= 1

\* every reported frame has the mean square m
ConstantPower(m) ==
    /\ m > 0
    /\ \A i \in 1..meterPost.at : FrameMs(Reported[i]) = m

C26_ConstantPowerReadsLevel ==
    meterPost.n > 0 =>
        \A m \in {FrameMs(Reported[1])} :
            ConstantPower(m) =>
                /\ MsIs(meterPost.msg.momentaryMs, m)
                /\ MsIs(meterPost.msg.shortMs, m)
                /\ MsIs(meterPost.msg.integratedMs, m)
                /\ LufsIs(meterPost.msg.lufsMomentary, m)
                /\ LufsIs(meterPost.msg.lufsShort, m)
                /\ LufsIs(meterPost.msg.lufsIntegrated, m)

----------------------------------------------------------------------------
(* C27: the correlation of a report is computed from the sums of L*R, L*L  *)
(* and R*R over every frame processed since the previous report.           *)

\* the frames of the blocks processed after the previous report, up to
\* and with the block of the last report
SincePrevious ==
    FramesOf(SubSeq(meterHist, meterPost.prevBlk + 1, meterPost.blk))

\* the block that issued the last report
ReportBlock == meterHist[meterPost.blk]

C27_CorrelationOverInterval ==
    meterPost.n > 0 =>
        meterPost.msg.correlation =
            Correlation(Len(ReportBlock[1]), SumLR(SincePrevious))

----------------------------------------------------------------------------
(* C28: the correlation of every report, read to the hundredth, lies in    *)
(* [-1, 1]; over the frames its sums were taken from it is 1 when the      *)
(* channels are identical and not silent, -1 when the right channel is the *)
(* negation of the left and not silent, and 0 when the sum of squares of   *)
(* either channel is 0 or the input has one channel.                       *)

\* every frame of the block has two channels and r = k * l
Stereo(block, k) == \A i \in 1..Len(block) :
                        Len(block[i]) = 2 /\ block[i][2] = k * block[i][1]

----------------------------------------------------------------------------
(* C29: a processing block posts a report if and only if at least          *)
(* 0.05 * sampleRate frames have been processed since the previous report, *)
(* so two consecutive reports are at least 0.05 * sampleRate and fewer     *)
(* than 0.05 * sampleRate + blockSize frames apart, and a call without     *)
(* input posts nothing.                                                    *)

\* a process() call was made
Processed == Len(meterHist') = Len(meterHist) + 1

\* the call posted a report
Posted == meterPost'.n = meterPost.n + 1

\* frames processed since the previous report, this block included
SinceReport == Len(FramesOf(meterHist')) - meterPost.at

C29_ReportCadence ==
    [][Processed =>
          /\ Posted <=> 20 * SinceReport >= meterProc.sampleRate
          /\ ~Posted => meterPost' = meterPost
          /\ Posted =>
                /\ meterPost'.at = Len(FramesOf(meterHist'))
                /\ 20 * SinceReport
                      < meterProc.sampleRate + 20 * MeterBlockSize
          /\ meterHist'[Len(meterHist')] = <<>> => ~Posted]_vars

C29_Witness ==
    /\ meterProc.sampleRate = 80
    /\ meterPost.n > 1
    /\ meterPost.blk < Len(meterHist)
    /\ \E i \in 1..Len(meterHist) : meterHist[i] = <<>>

----------------------------------------------------------------------------
(* C30: while the engine is mounted the audio URL of every item of the     *)
(* playlist has not been revoked; the URL of every item that was replaced  *)
(* or removed has been revoked, and so have the URLs of all items once the *)
(* engine is unmounted.                                                    *)

C30_RevokedOnlyWhenGone ==
    /\ mounted => PlaylistUrls \cap revoked = {}
    /\ (1..urlCount) \ PlaylistUrls \subseteq revoked
    /\ ~mounted => PlaylistUrls \subseteq revoked

----------------------------------------------------------------------------
(* C31: for a buffer of F frames, C channels and sample rate R the file    *)
(* has 44 + 2*F*C bytes; its header holds "RIFF", 36 + 2*F*C, "WAVE",      *)
(* "fmt ", 16, format 1, C, R, byte rate 2*R*C, block align 2*C, 16 bits,  *)
(* "data" and 2*F*C; the samples follow frame by frame, channel by         *)
(* channel, each the input clamped to [-1, 1] and scaled to a signed       *)
(* 16-bit value, -1 giving -32768 and 1 giving 32767, without wrapping.    *)

\* the unsigned little-endian number in n bytes of the file from offset
RECURSIVE ReadUint(_, _)
ReadUint(offset, n) ==
    IF n = 0 THEN 0
    ELSE wavBytes[offset + 1] + 256 * ReadUint(offset + 1, n - 1)

\* the signed 16-bit number at offset
ReadInt16(offset) ==
    LET u == ReadUint(offset, 2) IN IF u >= 32768 THEN u - 65536 ELSE u

\* the four characters at offset
ReadTag(offset) == SubSeq(wavBytes, offset + 1, offset + 4)

Encoded == wavBytes /= <<>>

\* value is the sample (in eighths) clamped to [-1, 1] and scaled: within
\* one step of 32768 times the clamped sample and on the side of 0
ScaledFrom(value, sample) ==
    LET c == IF sample > 8 THEN 8 ELSE IF sample < -8 THEN -8 ELSE sample
    IN IF c < 0
       THEN 8 * value >= c * 32768 /\ 8 * value < c * 32768 + 8
       ELSE 8 * value <= c * 32767 /\ 8 * value > c * 32767 - 8

C31_WavMatchesPcmFormat ==
    Encoded =>
        LET C == Len(wavIn.channels)
            F == Len(wavIn.channels[1])
            R == wavIn.sampleRate
        IN /\ Len(wavBytes) = 44 + 2 * F * C
           /\ ReadTag(0) = <<82, 73, 70, 70>>
           /\ ReadUint(4, 4) = 36 + 2 * F * C
           /\ ReadTag(8) = <<87, 65, 86, 69>>
           /\ ReadTag(12) = <<102, 109, 116, 32>>
           /\ ReadUint(16, 4) = 16
           /\ ReadUint(20, 2) = 1
           /\ ReadUint(22, 2) = C
           /\ ReadUint(24, 4) = R
           /\ ReadUint(28, 4) = 2 * R * C
           /\ ReadUint(32, 2) = 2 * C
           /\ ReadUint(34, 2) = 16
           /\ ReadTag(36) = <<100, 97, 116, 97>>
           /\ ReadUint(40, 4) = 2 * F * C
           /\ \A i \in 1..F, ch \in 1..C :
                 LET value  == ReadInt16(44 + 2 * ((i - 1) * C + (ch - 1)))
                     sample == wavIn.channels[ch][i]
                 IN /\ value \in -32768..32767
                    /\ sample /= NaN => ScaledFrom(value, sample)

C31_Witness ==
    /\ Encoded
    /\ Len(wavIn.channels) = 2
    /\ wavIn.channels[1] = <<9, -3>>
    /\ wavIn.channels[2] = <<-9, 5>>
    /\ ReadInt16(44) = 32767
    /\ ReadInt16(46) = -32768
    /\ ReadInt16(48) = -12288
    /\ ReadInt16(50) = 20479

----------------------------------------------------------------------------
(* C32: currentIndex is 0 when the playlist is empty and otherwise         *)
(* 0 <= currentIndex < playlist.length.                                    *)

C32_CurrentIndexInRange ==
    IF playlist = <<>> THEN currentIndex = 0
    ELSE currentIndex >= 0 /\ currentIndex < Len(playlist)

----------------------------------------------------------------------------
(* C33: movePlaylistItem(from, to) with both indices in range, and         *)
(* removePlaylistItems(ids) with ids that do not hold the current item,    *)
(* leave the same item at playlist[currentIndex] and do not change the     *)
(* source the audio element has loaded.                                    *)

\* the playlist has an item at currentIndex
HasCurrent == currentIndex + 1 \in DOMAIN playlist

KeepsCurrent ==
    /\ currentIndex' + 1 \in DOMAIN playlist'
    /\ playlist'[currentIndex' + 1] = playlist[currentIndex + 1]
    /\ itemUrl'[playlist'[currentIndex' + 1]] = itemUrl[playlist[currentIndex + 1]]
    /\ audioSrc' = audioSrc

InRange(i) == i >= 0 /\ i < Len(playlist)

C33_ReorderKeepsCurrent ==
    [][/\ \A from \in Positions, to \in Positions :
             /\ HasCurrent /\ InRange(from) /\ InRange(to)
             /\ MovePlaylistItem(from, to)
             => KeepsCurrent
       /\ \A ids \in RemoveSets :
             /\ HasCurrent /\ playlist[currentIndex + 1] \notin ids
             /\ RemovePlaylistItems(ids)
             => KeepsCurrent]_vars

\* the item that was current and first in the list is second after a
\* move, with the element's source, and is still the current one
C33_Witness ==
    /\ playlist = <<2, 1>>
    /\ itemUrl[1] = 1 /\ urlCount = 2
    /\ currentIndex = 1
    /\ audioSrc = 1

----------------------------------------------------------------------------
(* C34: when the engine mounts with a non-empty playlist in the database,  *)
(* the load restores that playlist, in its order and with its index        *)
(* clamped, and the database is never empty while the restored playlist    *)
(* is non-empty.                                                           *)

\* the load settles on a mounted engine
Settles == mounted /\ restorePending /\ ~restorePending'

C34_StartupKeepsStoredPlaylist ==
    [][/\ Settles =>
             /\ playlist' = loadRead.order
             /\ playlist' /= <<>>
             /\ currentIndex' = Clamp(loadRead.currentIndex, 0,
                                      Len(playlist') - 1)
       /\ mounted' /\ ~restorePending' /\ playlist' /= <<>> =>
             stored'.order /= <<>>]_vars

----------------------------------------------------------------------------
(* C35: when "ended" fires for the track at index i of a playlist of       *)
(* length n, the engine loads track i+1 and asks the element to play if    *)
(* i < n-1, and otherwise keeps currentIndex at i with playback stopped;   *)
(* nextTrack() at the last index and prevTrack() at index 0 change nothing *)
(* of the loaded track.                                                    *)

\* the element holds the same track at the same position as before
NotReloaded ==
    UNCHANGED <<currentIndex, audioSrc, audioTime, canPlayPending,
                audioPaused, isPlaying, playbackState, error>>

\* track index was loaded and play() was called on it
LoadedAndAsked(index, playOk) ==
    /\ currentIndex' = index
    /\ audioSrc' = playlist[index + 1]
    /\ audioTime' = 0
    /\ audioPaused' = ~playOk
    /\ isPlaying' = playOk
    /\ error' = IF playOk THEN "none" ELSE "playback"

C35_AutoAdvanceNoWrap ==
    [][/\ \A playOk \in BOOLEAN :
              AudioEnded(playOk) /\ HasCurrent =>
                  IF currentIndex < Len(playlist) - 1
                  THEN LoadedAndAsked(currentIndex + 1, playOk)
                  ELSE /\ currentIndex' = currentIndex
                       /\ audioSrc' = audioSrc
                       /\ audioPaused'
                       /\ ~isPlaying'
                       /\ playbackState' = "paused"
       /\ \A playOk \in BOOLEAN :
              /\ PlayNext(TRUE, playOk)
              /\ HasCurrent
              /\ currentIndex = Len(playlist) - 1
              => NotReloaded
       /\ \A playOk \in BOOLEAN :
              PlayPrev(TRUE, playOk) /\ HasCurrent /\ currentIndex = 0
              => NotReloaded]_vars

\* the second of two tracks was reached by the first one ending, is playing,
\* and nextTrack() has been called on it
C35_Witness ==
    /\ Len(playlist) = 2
    /\ currentIndex = 1
    /\ audioSrc = playlist[2]
    /\ ~audioPaused
    /\ audioTime = 1
    /\ calls = 2

----------------------------------------------------------------------------
(* C36: in every state reached after an event handler or operation has     *)
(* completed, isPlaying is true exactly when playbackState is "playing".   *)

\* no call of initAudio is between its steps
Settled == \A c \in InitCalls : initPc[c] \in {"idle", "done"}

C36_PlaybackFlagsAgree ==
    Settled => (isPlaying <=> (playbackState = "playing"))

----------------------------------------------------------------------------
(* C37: for any interleaving of startExport calls, isExporting is true in  *)
(* every state in which at least one export, deterministic render or       *)
(* fallback recording, is still in progress.                               *)

\* a startExport call is between its setIsExporting(true) and its finally
ExportInProgress ==
    \/ exportPc \in {"offline", "recording"}
    \/ overlapPc = "offline"

C37_IsExportingWhileInFlight ==
    ExportInProgress => isExporting

----------------------------------------------------------------------------
(* C38: under any sequence of start(), stop() and destroy() calls and      *)
(* animation frames, at most one animation-frame request of the loop is    *)
(* pending; exactly one is pending whenever the loop is marked running;    *)
(* start() on a running loop changes nothing; and while the loop is        *)
(* stopped or destroyed no request is pending and no frame is processed.   *)

\* the step is an animation frame of the loop
LoopFrame == \E elapsed \in TickElapsed : VisualizerTick(elapsed)

C38_SingleVisualizerLoop ==
    [][/\ rafPending' <= 1
       /\ vizRunning' => rafPending' = 1 /\ rafId' = "live"
       /\ ~vizRunning' => rafPending' = 0
       /\ vizRunning /\ vizRunning' /\ ~LoopFrame =>
              UNCHANGED <<rafVars, startVars, frameVars>>
       /\ ~vizRunning => UNCHANGED frameVars]_vars

\* the loop has drawn a frame and was then stopped by the host, by
\* teardownAudio or by destroy()
C38_Witness ==
    /\ frameCount >= 1
    /\ ~vizRunning
    /\ ~visualizerBlocked
    /\ rafId = "null"
    /\ rafPending = 0

----------------------------------------------------------------------------
(* C39: for finite input frames and thresholds and releases within range,  *)
(* also when they change from sample to sample, after each sample the      *)
(* envelope is in (0, 1] and at most the target gain (threshold / peak for *)
(* a peak over the threshold, else 1); it equals the target whenever the   *)
(* target is under the previous envelope, and otherwise lies between the   *)
(* previous envelope and the target; so |sample * env| is at most the      *)
(* threshold gain on every channel.                                        *)

\* the largest magnitude among the channels of the frame just processed
PeakIn(frame) ==
    IF \A ch \in DOMAIN frame : Abs(frame[ch]) <= Abs(frame[1])
    THEN Abs(frame[1]) ELSE Abs(frame[2])

\* the target gain of the sample just processed, in hundredths
TargetOf(frame, thresholdGain) ==
    IF PeakIn(frame) > thresholdGain
    THEN (thresholdGain * 100) \div PeakIn(frame)
    ELSE 100

C39_EnvelopeBounds ==
    [][LET thresholdGain == LimiterDbToGain(limParams'.threshold)
           target        == TargetOf(limIn', thresholdGain)
       IN /\ 0 < limEnv' /\ limEnv' <= 100
          /\ limEnv' <= target
          /\ target < limEnv => limEnv' = target
          /\ target >= limEnv => limEnv <= limEnv'
          /\ \A ch \in DOMAIN limIn' :
                 Abs(limIn'[ch]) * limEnv' <= thresholdGain * 100]_vars

\* a release under way: after a frame four times over full scale pulled the
\* envelope down, a silent frame has let it rise part of the way back to 1
C39_Witness ==
    /\ limIn = <<0>>
    /\ limEnv > 12
    /\ limEnv < 100

----------------------------------------------------------------------------
(* C40: isDragging becomes true only on a pointerdown while the track      *)
(* duration is known; the next pointerup commits a seek to p * duration    *)
(* and the next pointercancel performs no seek, and both set isDragging    *)
(* back to false; while isDragging is true, timeupdate events do not       *)
(* change the displayed playback position.                                 *)

\* the drag starts in this step
DragStarts == ~isDragging /\ isDragging'

\* a drag starts only in onRingPointerDown with a known duration
StartsOnPointerDown ==
    DragStarts => /\ TrackDuration > 0
                  /\ \E p \in PressPoints : OnRingPointerDown(p)

\* pointercancel ends the drag and leaves the element's position alone
CancelEndsDrag ==
    isDragging /\ OnRingPointerCancel =>
        ~isDragging' /\ audioTime' = audioTime

\* a timeupdate during a drag changes neither the position the drag shows
\* nor track.currentTime under it
TimeUpdateHeld ==
    isDragging /\ AudioTick =>
        UNCHANGED <<isDragging, dragProgress, trackTime>>

C40_SeekRingDragsEnd ==
    [][/\ StartsOnPointerDown
       /\ \A p \in RingPoints, ready \in BOOLEAN :
              isDragging /\ OnRingPointerUp(p, ready) =>
                  /\ ~isDragging'
                  /\ audioTime' = (p * TrackDuration) \div 100
       /\ CancelEndsDrag
       /\ TimeUpdateHeld]_vars

(* C40, amended: the pointerup seeks to p * duration when the duration is  *)
(* still known and the element has metadata (readyState >= 1), and seeks   *)
(* nowhere otherwise; the rest as stated.                                  *)
C40_SeekRingDragsEndAmended ==
    [][/\ StartsOnPointerDown
       /\ \A p \in RingPoints, ready \in BOOLEAN :
              isDragging /\ OnRingPointerUp(p, ready) =>
                  /\ ~isDragging'
                  /\ audioTime' = IF TrackDuration > 0 /\ ready
                                  THEN (p * TrackDuration) \div 100
                                  ELSE audioTime
       /\ CancelEndsDrag
       /\ TimeUpdateHeld]_vars

\* a drag on a paused, never played track was released half way round the
\* ring and moved the element there
C40_Witness ==
    /\ ~isDragging
    /\ dragProgress = 50
    /\ calls = 0
    /\ audioPaused
    /\ audioTime = (50 * TrackLength) \div 100
    /\ trackTime = audioTime

====
